---- MODULE Spec2Model ----
(***************************************************************************)
(* Synchronisation engine of paperless_ai_bridge                           *)
(* (src/services/dms_rag_sync/SyncService.py): one DMS source ("Paperless")*)
(* is synchronised into one vector store (Qdrant).  The model covers the   *)
(* full-sync pass (do_sync), the per-document pipeline (_sync_document),   *)
(* the validator, the fingerprint pre-load, orphan reconciliation and the  *)
(* webhook-triggered incremental sync.  The runner                         *)
(* (dms_rag_sync.py) calls do_full_sync once, so the pair sees one pass    *)
(* in Spec; the API server runs an incremental sync for every webhook, at  *)
(* any time, against the same store.                                       *)
(*                                                                         *)
(* Python values keep their type: the DMS models carry integer ids         *)
(* (Document.py: id: int, owner_id: int | None) while VectorPoint declares *)
(* dms_doc_id / owner_id as str.  An integer n is <<"int", n>>, its decimal*)
(* string is <<"str", n>>, and the two are different values, as in Python  *)
(* (1 != "1") and in the JSON the vector store receives.                   *)
(*                                                                         *)
(* Beside that specification (Spec) the module has smaller ones, each over *)
(* variables of its own: the orphan cleanup (SpecCleanup), do_full_sync    *)
(* over several pairs with the gated fan-out (SpecFull, SpecFullFair),     *)
(* do_incremental_sync over several clients (SpecIncr), the webhook        *)
(* handlers (SpecHook), two sequential incremental syncs (SpecTwice),      *)
(* do_full_sync called again on the same service (SpecRepass), and         *)
(* _compute_doc_hash, the point construction and _split_text called on     *)
(* their own (SpecHash, SpecPayload, SpecSplit, and SpecSplitLoop for the  *)
(* loop of _split_text turn by turn), the pagination loop of the vector    *)
(* store client (SpecScroll) and the caches of the DMS client over several *)
(* calls of fill_cache (SpecCache).                                        *)
(***************************************************************************)
EXTENDS Integers, Sequences, FiniteSets, TLC

(* ------------------------------ bounds -------------------------------- *)
MaxDocs == 2          \* document ids 1..MaxDocs exist at the source
MaxPairs == 2         \* the (dms_client, rag_client) pairs of do_full_sync
MaxClients == 2       \* the dms clients, and the rag clients, of do_incremental_sync
MaxRequests == 2      \* the webhook requests received
MaxLen == 2000        \* the longest text given to _split_text on its own
MaxPages == 3         \* the pages a scroll of the store is served in
MaxPageLen == 2       \* the points of one page (they stand for page_size)
MaxCalls == 3         \* the calls of fill_cache on one DMS client
MaxEntries == 1       \* the entries the backend returns for one cache

(* ------------------------- program constants -------------------------- *)
CHUNK_SIZE == 1000
CHUNK_OVERLAP == 100
UPSERT_BATCH_SIZE == 100
DOC_CONCURRENCY == 5

(* ------------------------------ values -------------------------------- *)
PyInt(n) == <<"int", n>>
PyStr(n) == <<"str", n>>          \* the decimal rendering of the integer n
EmptyStr == <<"str", -1>>         \* ""
None == <<"none", 0>>

\* Python str(): an int becomes its decimal string, a str stays itself.
str(v) == IF v[1] = "int" THEN PyStr(v[2]) ELSE v

\* Python truthiness of an optional int (None and 0 are falsy).
Truthy(v) == v # None /\ ~(v[1] = "int" /\ v[2] = 0)

Engine == "Paperless"             \* DMSClientPaperless._get_engine_name
OtherEngine == "Other"            \* points of a different source in the store

DocIds == 1..MaxDocs
WebhookDocIds == {1}              \* the document ids webhooks arrive for

min(a, b) == IF a < b THEN a ELSE b

(* A text (a str of free content) is <<"text", runs>>: its characters in   *)
(* order, written as the sequence of its runs <<c, n>>, n > 0 times the    *)
(* character c, neighbouring runs being of different characters. Every     *)
(* string has exactly one such form.                                       *)
Str(runs) == <<"text", runs>>
Run(c, n) == IF n > 0 THEN << <<c, n>> >> ELSE <<>>

\* v or "": the runs of a text, none for None.
Runs(v) == IF v = None THEN <<>> ELSE v[2]

\* len(s)
RECURSIVE StrLen(_)
StrLen(runs) == IF runs = <<>> THEN 0 ELSE runs[1][2] + StrLen(Tail(runs))

\* s + t
StrCat(a, b) ==
    IF a = <<>> THEN b
    ELSE IF b = <<>> THEN a
    ELSE IF a[Len(a)][1] = b[1][1]
    THEN SubSeq(a, 1, Len(a) - 1) \o << <<b[1][1], a[Len(a)][2] + b[1][2]>> >> \o Tail(b)
    ELSE a \o b

\* s[from:to] for 0 <= from <= to
RECURSIVE Slice(_, _, _)
Slice(runs, from, to) ==
    IF runs = <<>> \/ to <= from THEN <<>>
    ELSE LET n == runs[1][2]
         IN  IF from >= n THEN Slice(Tail(runs), from - n, to - n)
             ELSE StrCat(Run(runs[1][1], min(to, n) - from), Slice(Tail(runs), 0, to - n))

\* sep.join(parts)
RECURSIVE Join(_, _)
Join(parts, sep) ==
    IF parts = <<>> THEN <<>>
    ELSE IF Len(parts) = 1 THEN parts[1]
    ELSE StrCat(parts[1], StrCat(sep, Join(Tail(parts), sep)))

\* s.strip(): leading and trailing whitespace removed
RECURSIVE strip(_)
strip(runs) ==
    IF runs = <<>> THEN <<>>
    ELSE IF runs[1][1] = " " THEN strip(Tail(runs))
    ELSE IF runs[Len(runs)][1] = " " THEN strip(SubSeq(runs, 1, Len(runs) - 1))
    ELSE runs

\* The decimal digits of a natural number, and its decimal string.
RECURSIVE DigitSeq(_)
DigitSeq(n) == IF n < 10 THEN <<n>> ELSE Append(DigitSeq(n \div 10), n % 10)

Digits(n) ==
    LET ds == DigitSeq(n)
        ch == <<"0", "1", "2", "3", "4", "5", "6", "7", "8", "9">>
    IN  Join([i \in DOMAIN ds |-> Run(ch[ds[i] + 1], 1)], <<>>)

\* The characters of str(v) for an optional int v taken with `v or ""`.
StrOrEmpty(v) == IF Truthy(v) THEN Digits(v[2]) ELSE <<>>

\* sorted(str(t) for t in tag_ids): the decimal strings in the order of
\* Python's string comparison (character by character, a prefix first).
RECURSIVE LexLeq(_, _)
LexLeq(a, b) ==
    IF a = <<>> THEN TRUE
    ELSE IF b = <<>> THEN FALSE
    ELSE IF a[1] # b[1] THEN a[1] < b[1]
    ELSE LexLeq(Tail(a), Tail(b))

RECURSIVE sorted(_)
sorted(ids) ==
    IF ids = <<>> THEN <<>>
    ELSE LET rest == sorted(Tail(ids))
             k == Cardinality({i \in DOMAIN rest :
                                  LexLeq(DigitSeq(rest[i][2]), DigitSeq(ids[1][2]))})
         IN  SubSeq(rest, 1, k) \o <<ids[1]>> \o SubSeq(rest, k + 1, Len(rest))

TextNone == None                       \* content is None
TextBlank == Str(Run(" ", 3))          \* whitespace only
TextShort == Str(Run("x", 500))
TextLong == Str(Run("x", 1900))
\* one chunk more than an upsert batch holds
TextHuge == Str(Run("x", UPSERT_BATCH_SIZE * (CHUNK_SIZE - CHUNK_OVERLAP) + CHUNK_OVERLAP + 1))

Owner7 == PyInt(7)

(* --------------------------- pure functions --------------------------- *)
\* A loop that goes on where the last chunk ended.
SplitFrom_NoOverlap(start, len) ==
    IF start >= len THEN <<>>
    ELSE LET step == CHUNK_SIZE
             turns == IF start + CHUNK_SIZE >= len THEN 1
                      ELSE 1 + (len - start - CHUNK_SIZE + step - 1) \div step
         IN  [k \in 1..turns |->
                <<start + (k - 1) * step, min(start + (k - 1) * step + CHUNK_SIZE, len)>>]

\* The <<start, end>> of the turns of the while loop entered with `start`:
\* turn k begins CHUNK_SIZE - CHUNK_OVERLAP after turn k - 1 and the loop
\* breaks at the first turn whose end reaches len. The turns are written as
\* a function of k, so that a text of more chunks than an upsert batch holds
\* can be split; SplitIter runs the same loop turn by turn.
SplitFrom(start, len) ==
    IF start >= len THEN <<>>
    ELSE LET step == CHUNK_SIZE - CHUNK_OVERLAP
             turns == IF start + CHUNK_SIZE >= len THEN 1
                      ELSE 1 + (len - start - CHUNK_SIZE + step - 1) \div step
         IN  [k \in 1..turns |->
                <<start + (k - 1) * step, min(start + (k - 1) * step + CHUNK_SIZE, len)>>]

\* _split_text: the chunk list of a text; SplitFrom gives the <<start, end>>
\* of each text[start:end] the loop appends.
_split_text(text) ==
    LET offsets == SplitFrom(0, StrLen(Runs(text)))
    IN  [i \in DOMAIN offsets |-> Str(Slice(Runs(text), offsets[i][1], offsets[i][2]))]

\* _compute_doc_hash: sha256 of the parts joined with "|"; the digest is
\* taken as injective on the joined string, which stands for it.
_compute_doc_hash(doc) ==
    LET tags == sorted(doc.tag_ids)
        parts ==
            <<Runs(doc.content),
              Runs(doc.title),
              StrOrEmpty(doc.owner_id),
              Join([i \in DOMAIN tags |-> Digits(tags[i][2])], Run(",", 1)),
              StrOrEmpty(doc.correspondent_id),
              StrOrEmpty(doc.document_type_id)>>
    IN  <<"sha", Join(parts, Run("|", 1))>>

\* _make_point_id: uuid5 of f"{engine}:{doc_id}:{chunk_index}"; the f-string
\* renders the integer id as its decimal string.
_make_point_id(engine, doc_id, chunk_index) == <<engine, str(doc_id), chunk_index>>

\* A document as the DMS client hands it out (DocumentHighDetails).
\* tags holds the names of the resolved tags; correspondent, document_type
\* and owner hold the name (username) of the resolved object, None without
\* one; created_date is a day number.
MkDoc(id, owner, content) ==
    [id |-> PyInt(id), owner_id |-> owner, content |-> content, title |-> Str(Run("t", 1)),
     tag_ids |-> <<>>, correspondent_id |-> None, document_type_id |-> None,
     created_date |-> None, tags |-> <<>>, correspondent |-> None,
     document_type |-> None, owner |-> None]

NoDoc == MkDoc(0, None, TextNone)

(* --------------------------- vector points ---------------------------- *)
\* VectorPoint(...) accepts its arguments only if pydantic takes them for the
\* declared str fields: None is never a str, and an int is taken (and turned
\* into its decimal string) only when numbers are coerced to strings (lax).
VectorPointValid(doc, lax) ==
    /\ doc.owner_id # None
    /\ lax \/ (doc.id[1] = "str" /\ doc.owner_id[1] = "str")

\* The point built for chunk chunk_index of doc (VectorPoint + _make_point_id).
BuildPoint(doc, chunk_index, chunk, current_hash) ==
    [id |-> _make_point_id(Engine, doc.id, chunk_index),
     dms_engine |-> Engine,
     dms_doc_id |-> str(doc.id),
     chunk_index |-> chunk_index,
     title |-> Str(Runs(doc.title)),
     label_ids |-> [i \in DOMAIN doc.tag_ids |-> str(doc.tag_ids[i])],
     category_id |-> IF doc.correspondent_id = None THEN None
                     ELSE str(doc.correspondent_id),
     type_id |-> IF doc.document_type_id = None THEN None ELSE str(doc.document_type_id),
     owner_id |-> str(doc.owner_id),
     label_names |-> doc.tags,
     category_name |-> doc.correspondent,
     type_name |-> doc.document_type,
     owner_username |-> doc.owner,
     created |-> IF doc.created_date = None THEN None
                 ELSE Str(Digits(doc.created_date[2])),
     chunk_text |-> chunk,
     content_hash |-> current_hash]

\* points: one per (chunk, vector) pair, in chunk order (chunk_index from 0).
BuildPoints(doc) ==
    LET chunks == _split_text(doc.content)
    IN  [i \in 1..Len(chunks) |->
            BuildPoint(doc, i - 1, chunks[i], _compute_doc_hash(doc))]

\* points[batch_start : batch_start + UPSERT_BATCH_SIZE]
Batch(points, batch_start) ==
    SubSeq(points, batch_start + 1, min(batch_start + UPSERT_BATCH_SIZE, Len(points)))

Range(f) == {f[i] : i \in DOMAIN f}

(* ---------------------------- vector store ---------------------------- *)
\* delete-by-filter with must: dms_engine = engine, dms_doc_id = value.
\* A match condition compares the stored payload value with the given one.
DeleteByFilter(st, engine, value) ==
    {p \in st : ~(p.dms_engine = engine /\ p.dms_doc_id = value)}

\* upsert: insert, or replace the point that has the same id.
Upsert(st, batch) ==
    {p \in st : \A q \in batch : q.id # p.id} \cup batch

\* scroll with must: dms_engine = engine.
ScrollEngine(st, engine) == {p \in st : p.dms_engine = engine}

PointsOf(st, engine, n) ==
    {p \in st : p.dms_engine = engine /\ p.dms_doc_id = PyStr(n)}

(* ------------------------------- state -------------------------------- *)
VARIABLES
    lax_str,      \* pydantic coerces numbers to str (TRUE) or rejects them
    dms,          \* the documents at the source, by id
    cache_filled, \* DMSClientInterface._cache_enriched_documents is not None
    cache,        \* DMSClientInterface._cache_enriched_documents
    store,        \* the points held by the vector store
    pass_pc,      \* position of do_sync
    rag_hashes,   \* do_sync's rag_hashes: str(dms_doc_id) -> content_hash
    dms_ids,      \* the id set do_sync hands to _cleanup_orphans
    orphan_ids,   \* _cleanup_orphans: orphan ids still to delete
    tally,        \* do_sync's synced / skipped / errors counts
    pipe,         \* the _sync_document runs: one per document of the pass
                  \* (slots 1..MaxDocs) and one for the incremental sync (0);
                  \* n_embed, n_delete, n_upsert count the requests a run has
                  \* issued, failed names the call that failed, and sent holds
                  \* the points it has passed to do_upsert_points
    pass_clean,   \* history: every collaborator call of the pass succeeded
    pass_alone,   \* history: no other pipeline ran during the pass
    pass_docs,    \* history: the source's document ids at pass start
    cleaned,      \* history: orphan ids whose delete succeeded in this pass
    cleanup_store \* history: the store when _cleanup_orphans was called

\* do_full_sync and the gated fan-out of one do_sync, document by document.
VARIABLES
    full_pc,      \* position of do_full_sync
    pair,         \* the (dms_client, rag_client) pair whose do_sync runs
    ran,          \* history: the pairs do_sync was called for
    fan           \* the pipelines of the running do_sync, against its gate

\* do_incremental_sync over every dms client and every rag client.
VARIABLES
    incr          \* its position, and what each combination came to

\* The webhook routers.
VARIABLES
    hook          \* per request: the acknowledgement returned, the tasks
                  \* handed off and how far the task has come

\* Two incremental syncs of one document, one after the other.
VARIABLES
    twice         \* history: the runs started, whether the first one ended
                  \* synced, and the store it left

\* The module's functions called on their own.
VARIABLES
    call          \* the function called, its arguments and what it returned

sync_vars == <<lax_str, dms, cache_filled, cache, store, pass_pc, rag_hashes,
               dms_ids, orphan_ids, tally, pipe, pass_clean, pass_alone,
               pass_docs, cleaned, cleanup_store>>
full_vars == <<full_pc, pair, ran, fan>>
elsewhere == <<full_vars, incr, hook, twice, call>>
vars == <<sync_vars, elsewhere>>

Pairs == 1..MaxPairs
\* One document more than the gate admits, so that the gate can be full.
GateDocs == DOC_CONCURRENCY + 1
GateIds == 1..GateDocs
NoPipeline == [pc |-> "none", outcome |-> "none", pair |-> 0]
IdleFan == [d \in GateIds |-> NoPipeline]
FullIdle ==
    /\ full_pc = "idle"
    /\ pair = 0
    /\ ran = {}
    /\ fan = IdleFan
Sources == 1..MaxClients
Targets == 1..MaxClients
IncrIdle ==
    [pc |-> "idle", src |-> 0, tgt |-> 0,
     fetched |-> [c \in Sources |-> "none"],
     piped |-> [c \in Sources \X Targets |-> "none"]]

Requests == 1..MaxRequests
NoRequest ==
    [pc |-> "none", handler |-> "none", document_id |-> None,
     ack |-> [status |-> "none", document_id |-> None], tasks |-> 0, task |-> "none"]

NoRuns == [run |-> 0, first_synced |-> FALSE, after_first |-> {}]

NoCall == [fn |-> "none", args |-> <<>>, returned |-> FALSE, result |-> <<>>]

ServicesIdle ==
    /\ FullIdle
    /\ incr = IncrIdle
    /\ hook = [q \in Requests |-> NoRequest]
    /\ twice = NoRuns

ElsewhereIdle ==
    /\ ServicesIdle
    /\ call = NoCall

IncrSlot == 0
FullSlots == DocIds
Slots == FullSlots \cup {IncrSlot}

Absent == [present |-> FALSE, owner_id |-> None, content |-> TextNone]
Present(owner, content) == [present |-> TRUE, owner_id |-> owner, content |-> content]

\* The document of id d as fetched from a source entry e.
DocOf(d, e) == MkDoc(d, e.owner_id, e.content)

NoHashes == [k \in {} |-> None]
NoTally == [synced |-> 0, skipped |-> 0, errors |-> 0]

IdlePipe ==
    [pc |-> "idle", doc |-> NoDoc, outcome |-> "none", stage |-> "none",
     batch_start |-> 0, n_embed |-> 0, n_delete |-> 0, n_upsert |-> 0,
     failed |-> "none", sent |-> {}]

(* The source's documents and the points on file when the service starts. *)
(* Points on file were written with the VectorPoint schema (string ids).   *)
FirstDocStates ==
    {Absent, Present(None, TextLong), Present(Owner7, TextNone),
     Present(PyInt(0), TextShort),
     Present(Owner7, TextBlank), Present(Owner7, TextShort),
     Present(Owner7, TextLong)}
NextDocStates == {Absent, Present(Owner7, TextShort)}
InitDocStates(d) == IF d = 1 THEN FirstDocStates ELSE NextDocStates

FirstOnFile == {Present(Owner7, TextShort), Present(Owner7, TextLong)}
NextOnFile == {Absent}
InitOnFile(d) == IF d = 1 THEN FirstOnFile ELSE NextOnFile

OtherPoint ==
    [BuildPoint(MkDoc(1, Owner7, TextShort), 0, TextShort,
                _compute_doc_hash(MkDoc(1, Owner7, TextShort)))
        EXCEPT !.id = _make_point_id(OtherEngine, PyInt(1), 0),
               !.dms_engine = OtherEngine]

OnFile(f) ==
    UNION {IF f[d].present THEN Range(BuildPoints(DocOf(d, f[d]))) ELSE {} : d \in DOMAIN f}

Init ==
    /\ lax_str \in BOOLEAN
    /\ dms \in {f \in [DocIds -> FirstDocStates] : \A d \in DocIds : f[d] \in InitDocStates(d)}
    /\ cache_filled = FALSE
    /\ cache = [d \in DocIds |-> Absent]
    /\ \E f \in {g \in [DocIds -> FirstOnFile \cup NextOnFile] :
                     \A d \in DocIds : g[d] \in InitOnFile(d)} :
          store = OnFile(f) \cup {OtherPoint}
    /\ pass_pc = "idle"
    /\ rag_hashes = NoHashes
    /\ dms_ids = {}
    /\ orphan_ids = {}
    /\ tally = NoTally
    /\ pipe = [s \in Slots |-> IdlePipe]
    /\ pass_clean = TRUE
    /\ pass_alone = TRUE
    /\ pass_docs = {}
    /\ cleaned = {}
    /\ cleanup_store = {}
    /\ ElsewhereIdle

(* ----------------------- the document pipeline ------------------------ *)
\* A validator that forgets the owner check.
_validate_document_NoOwnerCheck(doc) ==
    /\ Runs(doc.content) # <<>> /\ strip(Runs(doc.content)) # <<>>
    /\ Len(_split_text(doc.content)) > 0

\* _validate_document returns the chunks (TRUE) or None (FALSE).
_validate_document(doc) ==
    /\ Truthy(doc.owner_id)
    /\ Runs(doc.content) # <<>> /\ strip(Runs(doc.content)) # <<>>
    /\ Len(_split_text(doc.content)) > 0

\* rag_hashes.get(key)
Lookup(hashes, key) == IF key \in DOMAIN hashes THEN hashes[key] ELSE None

\* A pipeline that never compares the fingerprint with the one on file.
Begin_NoCompare(doc, hashes) ==
    IF ~_validate_document(doc)
    THEN [IdlePipe EXCEPT !.pc = "retract", !.doc = doc, !.n_delete = 1]
    ELSE [IdlePipe EXCEPT !.pc = "embed", !.doc = doc, !.n_embed = 1]

\* _sync_document from the gate to its first await: validation, fingerprint
\* comparison, and the request it then waits for.
Begin(doc, hashes) ==
    IF ~_validate_document(doc)
    THEN [IdlePipe EXCEPT !.pc = "retract", !.doc = doc, !.n_delete = 1]
    ELSE IF Lookup(hashes, str(doc.id)) = _compute_doc_hash(doc)
    THEN [IdlePipe EXCEPT !.pc = "done", !.doc = doc, !.outcome = "skipped",
                          !.stage = "unchanged"]
    ELSE [IdlePipe EXCEPT !.pc = "embed", !.doc = doc, !.n_embed = 1]

Finish(p, outcome, stage) ==
    [p EXCEPT !.pc = "done", !.outcome = outcome, !.stage = stage]

PassRunning == pass_pc # "idle"
InFlight(s) == pipe[s].pc \in {"fetch", "retract", "embed", "delete", "upsert"}
Gate == Cardinality({s \in FullSlots : InFlight(s)})

\* History of a step of slot s whose collaborator call returned r.
Hist(s, r) ==
    /\ pass_clean' = IF s # IncrSlot /\ r # "ok" THEN FALSE ELSE pass_clean
    /\ pass_alone' = IF s = IncrSlot /\ PassRunning THEN FALSE ELSE pass_alone

\* A pipeline of the pass acquires the gate and runs to its first await.
StartPipeline(s) ==
    /\ s \in FullSlots
    /\ pass_pc = "fanout"
    /\ pipe[s].pc = "ready"
    /\ Gate < DOC_CONCURRENCY
    /\ pipe' = [pipe EXCEPT ![s] = Begin(pipe[s].doc, rag_hashes)]
    /\ UNCHANGED <<elsewhere, lax_str, dms, cache_filled, cache, store, pass_pc, rag_hashes, dms_ids, orphan_ids, tally, pass_clean, pass_alone, pass_docs, cleaned, cleanup_store>>

\* _delete_document_vectors returns: the error of a failed delete is logged
\* and swallowed, and _sync_document returns False.
RetractReturn(s, r) ==
    /\ pipe[s].pc = "retract"
    /\ r \in {"ok", "fail"}
    /\ store' = IF r = "ok" THEN DeleteByFilter(store, Engine, pipe[s].doc.id)
                ELSE store
    /\ pipe' = [pipe EXCEPT ![s] =
                  [Finish(pipe[s], "skipped", "ineligible")
                      EXCEPT !.failed = IF r = "ok" THEN "none" ELSE "retract"]]
    /\ Hist(s, r)
    /\ UNCHANGED <<elsewhere, lax_str, dms, cache_filled, cache, pass_pc, rag_hashes, dms_ids, orphan_ids, tally, pass_docs, cleaned, cleanup_store>>

\* A gather() without return_exceptions: an embedding failure of a pipeline
\* of the pass is raised out of do_sync.
EmbedReturn_Reraise(s, r) ==
    /\ pipe[s].pc = "embed"
    /\ r \in {"ok", "fail"}
    /\ pipe' = [pipe EXCEPT ![s] =
                  IF r = "ok"
                  THEN [pipe[s] EXCEPT !.pc = "delete", !.n_delete = @ + 1]
                  ELSE [Finish(pipe[s], "error", "embed") EXCEPT !.failed = "embed"]]
    /\ pass_pc' = IF r = "fail" /\ s \in FullSlots THEN "raised" ELSE pass_pc
    /\ Hist(s, r)
    /\ UNCHANGED <<elsewhere, lax_str, dms, cache_filled, cache, store, rag_hashes, dms_ids, orphan_ids, tally, pass_docs, cleaned, cleanup_store>>

\* A pipeline that sends the embedding request a second time when the first
\* one failed.
EmbedReturn_Retry(s, r) ==
    /\ pipe[s].pc = "embed"
    /\ r \in {"ok", "fail"}
    /\ pipe' = [pipe EXCEPT ![s] =
                  IF r = "ok"
                  THEN [pipe[s] EXCEPT !.pc = "delete", !.n_delete = @ + 1]
                  ELSE IF pipe[s].n_embed < 2
                  THEN [pipe[s] EXCEPT !.n_embed = @ + 1]
                  ELSE [Finish(pipe[s], "error", "embed") EXCEPT !.failed = "embed"]]
    /\ Hist(s, r)
    /\ UNCHANGED <<elsewhere, lax_str, dms, cache_filled, cache, store, pass_pc, rag_hashes, dms_ids, orphan_ids, tally, pass_docs, cleaned, cleanup_store>>

\* A pipeline that sends one embedding request per chunk.
EmbedReturn_PerChunk(s, r) ==
    /\ pipe[s].pc = "embed"
    /\ r \in {"ok", "fail"}
    /\ pipe' = [pipe EXCEPT ![s] =
                  IF r = "fail"
                  THEN [Finish(pipe[s], "error", "embed") EXCEPT !.failed = "embed"]
                  ELSE IF pipe[s].n_embed < Len(_split_text(pipe[s].doc.content))
                  THEN [pipe[s] EXCEPT !.n_embed = @ + 1]
                  ELSE [pipe[s] EXCEPT !.pc = "delete", !.n_delete = @ + 1]]
    /\ Hist(s, r)
    /\ UNCHANGED <<elsewhere, lax_str, dms, cache_filled, cache, store, pass_pc, rag_hashes, dms_ids, orphan_ids, tally, pass_docs, cleaned, cleanup_store>>

\* do_embed returns: on success the delete-stale request is sent.  The
\* backend answers one vector per text, in the order of the texts.
EmbedReturn(s, r) ==
    /\ pipe[s].pc = "embed"
    /\ r \in {"ok", "fail"}
    /\ pipe' = [pipe EXCEPT ![s] =
                  IF r = "ok"
                  THEN [pipe[s] EXCEPT !.pc = "delete", !.n_delete = @ + 1]
                  ELSE [Finish(pipe[s], "error", "embed") EXCEPT !.failed = "embed"]]
    /\ Hist(s, r)
    /\ UNCHANGED <<elsewhere, lax_str, dms, cache_filled, cache, store, pass_pc, rag_hashes, dms_ids, orphan_ids, tally, pass_docs, cleaned, cleanup_store>>

\* A pipeline that logs a failed delete-stale call and writes all the same.
DeleteReturn_Proceed(s, r) ==
    /\ pipe[s].pc = "delete"
    /\ r \in {"ok", "fail"}
    /\ LET doc == pipe[s].doc
           points == BuildPoints(doc)
       IN  /\ store' = IF r = "ok" THEN DeleteByFilter(store, Engine, doc.id) ELSE store
           /\ IF ~VectorPointValid(doc, lax_str)
              THEN pipe' = [pipe EXCEPT ![s] = Finish(pipe[s], "error", "build")]
              ELSE pipe' = [pipe EXCEPT ![s] =
                              [pipe[s] EXCEPT !.pc = "upsert", !.batch_start = 0,
                                              !.n_upsert = @ + 1,
                                              !.sent = @ \cup Range(Batch(points, 0)),
                                              !.failed = IF r = "ok" THEN @ ELSE "delete"]]
    /\ Hist(s, r)
    /\ UNCHANGED <<elsewhere, lax_str, dms, cache_filled, cache, pass_pc, rag_hashes, dms_ids, orphan_ids, tally, pass_docs, cleaned, cleanup_store>>

\* The delete-stale call returns: on success the points are built and the
\* first upsert batch is sent.
DeleteReturn(s, r) ==
    /\ pipe[s].pc = "delete"
    /\ r \in {"ok", "fail"}
    /\ LET doc == pipe[s].doc
           points == BuildPoints(doc)
       IN  IF r = "fail"
           THEN /\ pipe' = [pipe EXCEPT ![s] =
                              [Finish(pipe[s], "error", "delete") EXCEPT !.failed = "delete"]]
                /\ UNCHANGED store
           ELSE /\ store' = DeleteByFilter(store, Engine, doc.id)
                /\ IF ~VectorPointValid(doc, lax_str)
                   THEN pipe' = [pipe EXCEPT ![s] = Finish(pipe[s], "error", "build")]
                   ELSE IF Len(points) = 0
                   THEN pipe' = [pipe EXCEPT ![s] = Finish(pipe[s], "synced", "synced")]
                   ELSE pipe' = [pipe EXCEPT ![s] =
                                   [pipe[s] EXCEPT !.pc = "upsert", !.batch_start = 0,
                                                   !.n_upsert = @ + 1,
                                                   !.sent = @ \cup Range(Batch(points, 0))]]
    /\ Hist(s, r)
    /\ UNCHANGED <<elsewhere, lax_str, dms, cache_filled, cache, pass_pc, rag_hashes, dms_ids, orphan_ids, tally, pass_docs, cleaned, cleanup_store>>

\* A pipeline whose points get a fresh id each time (uuid4 in place of
\* _make_point_id); the size of the store stands for the freshness.
UpsertReturn_FreshIds(s, r) ==
    /\ pipe[s].pc = "upsert"
    /\ r \in {"ok", "rejected", "fail"}
    /\ LET doc == pipe[s].doc
           points == BuildPoints(doc)
           batch == Batch(points, pipe[s].batch_start)
           fresh == {[q EXCEPT !.id = <<"uuid4", Cardinality(store), q.chunk_index>>] :
                         q \in Range(batch)}
           next == pipe[s].batch_start + UPSERT_BATCH_SIZE
       IN  IF r = "fail"
           THEN /\ pipe' = [pipe EXCEPT ![s] =
                              [Finish(pipe[s], "error", "upsert") EXCEPT !.failed = "upsert"]]
                /\ UNCHANGED store
           ELSE /\ store' = IF r = "ok" THEN Upsert(store, fresh) ELSE store
                /\ IF next < Len(points)
                   THEN pipe' = [pipe EXCEPT ![s] =
                                   [pipe[s] EXCEPT !.batch_start = next,
                                                   !.n_upsert = @ + 1,
                                                   !.sent = @ \cup Range(Batch(points, next))]]
                   ELSE pipe' = [pipe EXCEPT ![s] = Finish(pipe[s], "synced", "synced")]
    /\ Hist(s, r)
    /\ UNCHANGED <<elsewhere, lax_str, dms, cache_filled, cache, pass_pc, rag_hashes, dms_ids, orphan_ids, tally, pass_docs, cleaned, cleanup_store>>

\* A pipeline whose next batch starts at the last point of the batch before
\* (a slice step of UPSERT_BATCH_SIZE - 1).
UpsertReturn_Overlap(s, r) ==
    /\ pipe[s].pc = "upsert"
    /\ r \in {"ok", "rejected", "fail"}
    /\ LET doc == pipe[s].doc
           points == BuildPoints(doc)
           batch == Batch(points, pipe[s].batch_start)
           next == pipe[s].batch_start + UPSERT_BATCH_SIZE - 1
       IN  IF r = "fail"
           THEN /\ pipe' = [pipe EXCEPT ![s] =
                              [Finish(pipe[s], "error", "upsert") EXCEPT !.failed = "upsert"]]
                /\ UNCHANGED store
           ELSE /\ store' = IF r = "ok" THEN Upsert(store, Range(batch)) ELSE store
                /\ IF next < Len(points)
                   THEN pipe' = [pipe EXCEPT ![s] =
                                   [pipe[s] EXCEPT !.batch_start = next,
                                                   !.n_upsert = @ + 1,
                                                   !.sent = @ \cup Range(Batch(points, next))]]
                   ELSE pipe' = [pipe EXCEPT ![s] = Finish(pipe[s], "synced", "synced")]
    /\ Hist(s, r)
    /\ UNCHANGED <<elsewhere, lax_str, dms, cache_filled, cache, pass_pc, rag_hashes, dms_ids, orphan_ids, tally, pass_docs, cleaned, cleanup_store>>

\* do_upsert_points returns.  It does not pass raise_on_error, so a request
\* the store rejected (status >= 300) returns normally like an accepted one;
\* only a transport error raises.
UpsertReturn(s, r) ==
    /\ pipe[s].pc = "upsert"
    /\ r \in {"ok", "rejected", "fail"}
    /\ LET doc == pipe[s].doc
           points == BuildPoints(doc)
           batch == Batch(points, pipe[s].batch_start)
           next == pipe[s].batch_start + UPSERT_BATCH_SIZE
       IN  IF r = "fail"
           THEN /\ pipe' = [pipe EXCEPT ![s] =
                              [Finish(pipe[s], "error", "upsert") EXCEPT !.failed = "upsert"]]
                /\ UNCHANGED store
           ELSE /\ store' = IF r = "ok" THEN Upsert(store, Range(batch)) ELSE store
                /\ IF next < Len(points)
                   THEN pipe' = [pipe EXCEPT ![s] =
                                   [pipe[s] EXCEPT !.batch_start = next,
                                                   !.n_upsert = @ + 1,
                                                   !.sent = @ \cup Range(Batch(points, next))]]
                   ELSE pipe' = [pipe EXCEPT ![s] = Finish(pipe[s], "synced", "synced")]
    /\ Hist(s, r)
    /\ UNCHANGED <<elsewhere, lax_str, dms, cache_filled, cache, pass_pc, rag_hashes, dms_ids, orphan_ids, tally, pass_docs, cleaned, cleanup_store>>

(* --------------------------- the full pass ---------------------------- *)
\* enriched_docs: the documents of the DMS client's cache.
Enumerated(c) == {d \in DocIds : c[d].present}

\* Counts that take every truthy result, exceptions included, for a sync.
Tally_TruthyIsSynced(p, docs) ==
    [synced |-> Cardinality({d \in docs : p[d].outcome \in {"synced", "error"}}),
     skipped |-> Cardinality({d \in docs : p[d].outcome = "skipped"}),
     errors |-> Cardinality({d \in docs : p[d].outcome = "error"})]

\* The synced / skipped / errors counts taken from the gathered results.
Tally(p, docs) ==
    [synced |-> Cardinality({d \in docs : p[d].outcome = "synced"}),
     skipped |-> Cardinality({d \in docs : p[d].outcome = "skipped"}),
     errors |-> Cardinality({d \in docs : p[d].outcome = "error"})]

\* The maps _load_rag_hashes can build from a scroll of st: one entry per
\* str(dms_doc_id), holding the content_hash of the point scrolled last.
HashesOfKey(st, k) ==
    {p.content_hash : p \in {q \in ScrollEngine(st, Engine) :
                                q.dms_doc_id # None /\ q.content_hash # None
                                /\ str(q.dms_doc_id) = k}}
HashKeys(st) ==
    {str(p.dms_doc_id) : p \in {q \in ScrollEngine(st, Engine) :
                                  q.dms_doc_id # None /\ q.content_hash # None}}
HashMaps(st) ==
    {m \in [HashKeys(st) -> UNION {HashesOfKey(st, k) : k \in HashKeys(st)}] :
        \A k \in HashKeys(st) : m[k] \in HashesOfKey(st, k)}

\* A cleanup that takes every indexed document id for an orphan.
Orphans_All(st, engine, ids) ==
    {str(p.dms_doc_id) : p \in {q \in ScrollEngine(st, engine) : q.dms_doc_id # None}}

\* _cleanup_orphans: rag_doc_ids - dms_ids.
Orphans(st, engine, ids) ==
    {str(p.dms_doc_id) : p \in {q \in ScrollEngine(st, engine) : q.dms_doc_id # None}} \ ids

\* do_full_sync calls do_sync for the pair; do_sync awaits fill_cache().
DoSyncStart ==
    /\ pass_pc = "idle"
    /\ pass_pc' = "fill"
    /\ pass_alone' = ~InFlight(IncrSlot)
    /\ pass_docs' = {d \in DocIds : dms[d].present}
    /\ UNCHANGED <<elsewhere, lax_str, dms, cache_filled, cache, store, rag_hashes, dms_ids,
                   orphan_ids, tally, pipe, pass_clean, cleaned,
                   cleanup_store>>

\* fill_cache() returns (force_refresh is False: a filled cache is kept) and
\* get_enriched_documents() is read; an empty list ends the pass.
FillCacheReturn(r) ==
    /\ pass_pc = "fill"
    /\ r \in {"ok", "fail"}
    /\ IF r = "fail"
       THEN /\ pass_pc' = "raised"
            /\ UNCHANGED <<cache, cache_filled>>
       ELSE /\ cache' = IF cache_filled THEN cache ELSE dms
            /\ cache_filled' = TRUE
            /\ pass_pc' = IF Enumerated(cache') = {} THEN "returned_empty" ELSE "load"
    /\ pass_clean' = (pass_clean /\ r = "ok")
    /\ UNCHANGED <<elsewhere, lax_str, dms, store, rag_hashes, dms_ids, orphan_ids,
                   tally, pipe, pass_alone, pass_docs, cleaned, cleanup_store>>

\* A pass that lets the error of the pre-load scroll escape from do_sync.
LoadHashesReturn_Abort(r) ==
    /\ pass_pc = "load"
    /\ r \in {"ok", "fail"}
    /\ IF r = "ok"
       THEN /\ rag_hashes' \in HashMaps(store)
            /\ pipe' = [s \in Slots |->
                          IF s \in Enumerated(cache)
                          THEN [IdlePipe EXCEPT !.pc = "ready", !.doc = DocOf(s, cache[s])]
                          ELSE pipe[s]]
            /\ pass_pc' = "fanout"
       ELSE /\ pass_pc' = "raised"
            /\ UNCHANGED <<rag_hashes, pipe>>
    /\ pass_clean' = (pass_clean /\ r = "ok")
    /\ UNCHANGED <<elsewhere, lax_str, dms, cache_filled, cache, store, dms_ids,
                   orphan_ids, tally, pass_alone, pass_docs,
                   cleaned, cleanup_store>>

\* _load_rag_hashes returns (a failed scroll gives the empty map) and the
\* pipelines of all enumerated documents are handed to gather().
LoadHashesReturn(r) ==
    /\ pass_pc = "load"
    /\ r \in {"ok", "fail"}
    /\ IF r = "ok" THEN rag_hashes' \in HashMaps(store) ELSE rag_hashes' = NoHashes
    /\ pipe' = [s \in Slots |->
                  IF s \in Enumerated(cache)
                  THEN [IdlePipe EXCEPT !.pc = "ready", !.doc = DocOf(s, cache[s])]
                  ELSE pipe[s]]
    /\ pass_pc' = "fanout"
    /\ pass_clean' = (pass_clean /\ r = "ok")
    /\ UNCHANGED <<elsewhere, lax_str, dms, cache_filled, cache, store, dms_ids,
                   orphan_ids, tally, pass_alone, pass_docs,
                   cleaned, cleanup_store>>

\* gather() returns: every pipeline has ended; the counts are taken and
\* _cleanup_orphans sends its scroll.
GatherDone ==
    /\ pass_pc = "fanout"
    /\ \A d \in Enumerated(cache) : pipe[d].pc = "done"
    /\ tally' = Tally(pipe, Enumerated(cache))
    /\ dms_ids' = {DocOf(d, cache[d]).id : d \in Enumerated(cache)}
    /\ pass_pc' = "scan"
    /\ cleanup_store' = store
    /\ UNCHANGED <<elsewhere, lax_str, dms, cache_filled, cache, store, rag_hashes,
                   orphan_ids, pipe, pass_clean, pass_alone,
                   pass_docs, cleaned>>

\* A scan that goes on with the points it has when the scroll fails.
CleanupScanReturn_Partial(r) ==
    /\ pass_pc = "scan"
    /\ r \in {"ok", "fail"}
    /\ orphan_ids' = Orphans(store, Engine, dms_ids)
    /\ pass_pc' = IF orphan_ids' = {} THEN "done" ELSE "orphans"
    /\ pass_clean' = (pass_clean /\ r = "ok")
    /\ UNCHANGED <<elsewhere, lax_str, dms, cache_filled, cache, store, rag_hashes,
                   dms_ids, tally, pipe, pass_alone,
                   pass_docs, cleaned, cleanup_store>>

\* do_scroll_all of _cleanup_orphans returns. Its count call and each of
\* its scroll pages raise on an error answer, and the points of the pages
\* read so far are its locals: a failure at any of them ("fail") reaches
\* the except of _cleanup_orphans with no id set built, which logs and
\* returns ("done_unscanned").
CleanupScanReturn(r) ==
    /\ pass_pc = "scan"
    /\ r \in {"ok", "fail"}
    /\ orphan_ids' = IF r = "ok" THEN Orphans(store, Engine, dms_ids) ELSE {}
    /\ pass_pc' = IF r = "fail" THEN "done_unscanned"
                  ELSE IF orphan_ids' = {} THEN "done" ELSE "orphans"
    /\ pass_clean' = (pass_clean /\ r = "ok")
    /\ UNCHANGED <<elsewhere, lax_str, dms, cache_filled, cache, store, rag_hashes,
                   dms_ids, tally, pipe, pass_alone,
                   pass_docs, cleaned, cleanup_store>>

\* A loop that a failed delete ends, the exception going up to do_sync.
CleanupDeleteReturn_Abort(o, r) ==
    /\ pass_pc = "orphans"
    /\ o \in orphan_ids
    /\ r \in {"ok", "fail"}
    /\ store' = IF r = "ok" THEN DeleteByFilter(store, Engine, o) ELSE store
    /\ cleaned' = IF r = "ok" THEN cleaned \cup {o} ELSE cleaned
    /\ orphan_ids' = orphan_ids \ {o}
    /\ pass_pc' = IF r = "fail" THEN "raised"
                  ELSE IF orphan_ids' = {} THEN "done" ELSE "orphans"
    /\ pass_clean' = (pass_clean /\ r = "ok")
    /\ UNCHANGED <<elsewhere, lax_str, dms, cache_filled, cache, rag_hashes,
                   dms_ids, tally, pipe, pass_alone,
                   pass_docs, cleanup_store>>

\* The scoped delete for one orphan id returns; a failure is logged and the
\* loop goes on with the next id.
CleanupDeleteReturn(o, r) ==
    /\ pass_pc = "orphans"
    /\ o \in orphan_ids
    /\ r \in {"ok", "fail"}
    /\ store' = IF r = "ok" THEN DeleteByFilter(store, Engine, o) ELSE store
    /\ cleaned' = IF r = "ok" THEN cleaned \cup {o} ELSE cleaned
    /\ orphan_ids' = orphan_ids \ {o}
    /\ pass_pc' = IF orphan_ids' = {} THEN "done" ELSE "orphans"
    /\ pass_clean' = (pass_clean /\ r = "ok")
    /\ UNCHANGED <<elsewhere, lax_str, dms, cache_filled, cache, rag_hashes,
                   dms_ids, tally, pipe, pass_alone,
                   pass_docs, cleanup_store>>

(* ------------------------- incremental sync -------------------------- *)
\* The webhook starts do_incremental_sync(d), which awaits the DMS fetch.
IncrStart(d) ==
    /\ d \in DocIds
    /\ pipe[IncrSlot].pc = "idle"
    /\ pipe' = [pipe EXCEPT ![IncrSlot] =
                  [IdlePipe EXCEPT !.pc = "fetch", !.doc = MkDoc(d, None, TextNone)]]
    /\ pass_alone' = IF PassRunning THEN FALSE ELSE pass_alone
    /\ UNCHANGED <<elsewhere, lax_str, dms, cache_filled, cache, store, pass_pc, rag_hashes, dms_ids, orphan_ids, tally, pass_clean,
                   pass_docs, cleaned, cleanup_store>>

\* fill_cache(force_refresh=False) and do_fetch_document_details return: a
\* failure of either (or an unknown document) is logged and ends the run;
\* otherwise _sync_document runs with an empty fingerprint map.
IncrFetchReturn(r) ==
    /\ pipe[IncrSlot].pc = "fetch"
    /\ r \in {"ok", "fail"}
    /\ LET d == pipe[IncrSlot].doc.id[2]
       IN  pipe' = [pipe EXCEPT ![IncrSlot] =
                      IF r = "ok" /\ dms[d].present
                      THEN Begin(DocOf(d, dms[d]), NoHashes)
                      ELSE Finish(pipe[IncrSlot], "error", "fetch")]
    /\ pass_alone' = IF PassRunning THEN FALSE ELSE pass_alone
    /\ UNCHANGED <<elsewhere, lax_str, dms, cache_filled, cache, store, pass_pc, rag_hashes, dms_ids, orphan_ids, tally, pass_clean, pass_docs, cleaned, cleanup_store>>

\* do_incremental_sync returns.
IncrReturn ==
    /\ pipe[IncrSlot].pc = "done"
    /\ pipe' = [pipe EXCEPT ![IncrSlot] = IdlePipe]
    /\ UNCHANGED <<elsewhere, lax_str, dms, cache_filled, cache, store, pass_pc, rag_hashes, dms_ids, orphan_ids, tally, pass_clean, pass_alone, pass_docs, cleaned, cleanup_store>>

(* --------------------------- specification --------------------------- *)
Next ==
    \/ DoSyncStart
    \/ \E r \in {"ok", "fail"} : FillCacheReturn(r)
    \/ \E r \in {"ok", "fail"} : LoadHashesReturn(r)
    \/ \E s \in FullSlots : StartPipeline(s)
    \/ \E s \in Slots, r \in {"ok", "fail"} : RetractReturn(s, r)
    \/ \E s \in Slots, r \in {"ok", "fail"} : EmbedReturn(s, r)
    \/ \E s \in Slots, r \in {"ok", "fail"} : DeleteReturn(s, r)
    \/ \E s \in Slots, r \in {"ok", "rejected", "fail"} : UpsertReturn(s, r)
    \/ GatherDone
    \/ \E r \in {"ok", "fail"} : CleanupScanReturn(r)
    \/ \E o \in orphan_ids, r \in {"ok", "fail"} : CleanupDeleteReturn(o, r)
    \/ \E d \in WebhookDocIds : IncrStart(d)
    \/ \E r \in {"ok", "fail"} : IncrFetchReturn(r)
    \/ IncrReturn

Spec == Init /\ [][Next]_vars

(* _cleanup_orphans on its own: called with any set of current ids (of the *)
(* declared type set[str]) against any store.                              *)
CleanupDocIds == 1..(MaxDocs + 1)
CleanupOnFile == {Absent, Present(Owner7, TextShort), Present(Owner7, TextLong)}

InitCleanup ==
    /\ lax_str = TRUE
    /\ dms = [d \in DocIds |-> Absent]
    /\ cache_filled = FALSE
    /\ cache = [d \in DocIds |-> Absent]
    /\ \E f \in [CleanupDocIds -> CleanupOnFile] : store = OnFile(f) \cup {OtherPoint}
    /\ cleanup_store = store
    /\ pass_pc = "scan"
    /\ rag_hashes = NoHashes
    /\ dms_ids \in SUBSET {PyStr(d) : d \in CleanupDocIds}
    /\ orphan_ids = {}
    /\ tally = NoTally
    /\ pipe = [s \in Slots |-> IdlePipe]
    /\ pass_clean = TRUE
    /\ pass_alone = TRUE
    /\ pass_docs = {}
    /\ cleaned = {}
    /\ ElsewhereIdle

NextCleanup ==
    \/ \E r \in {"ok", "fail"} : CleanupScanReturn(r)
    \/ \E o \in orphan_ids, r \in {"ok", "fail"} : CleanupDeleteReturn(o, r)

SpecCleanup == InitCleanup /\ [][NextCleanup]_vars

(* do_full_sync called again on the same SyncService, the source changing  *)
(* between the calls: the DMS client, and with it its cache, lives on from *)
(* one call to the next, and so do the points on file. The one document of *)
(* the source has an owner and a text, so that every pipeline goes the way *)
(* of an eligible document; no webhook arrives.                            *)
RepassDocStates == {Absent, Present(Owner7, TextShort), Present(Owner7, TextHuge)}

InitRepass ==
    /\ lax_str \in BOOLEAN
    /\ \E e \in RepassDocStates : dms = [d \in DocIds |-> IF d = 1 THEN e ELSE Absent]
    /\ cache_filled = FALSE
    /\ cache = [d \in DocIds |-> Absent]
    /\ store = {OtherPoint}
    /\ pass_pc = "idle"
    /\ rag_hashes = NoHashes
    /\ dms_ids = {}
    /\ orphan_ids = {}
    /\ tally = NoTally
    /\ pipe = [s \in Slots |-> IdlePipe]
    /\ pass_clean = TRUE
    /\ pass_alone = TRUE
    /\ pass_docs = {}
    /\ cleaned = {}
    /\ cleanup_store = {}
    /\ ElsewhereIdle

\* Between two calls a document is added, changed or removed at the source.
SourceChange(e) ==
    /\ pass_pc = "idle"
    /\ e \in RepassDocStates \ {dms[1]}
    /\ dms' = [dms EXCEPT ![1] = e]
    /\ UNCHANGED <<elsewhere, lax_str, cache_filled, cache, store, pass_pc, rag_hashes,
                   dms_ids, orphan_ids, tally, pipe, pass_clean, pass_alone, pass_docs,
                   cleaned, cleanup_store>>

\* do_full_sync has returned or raised, and is called again: the locals of
\* the last do_sync are gone, the clients and the store are as they were.
PassAgain ==
    /\ pass_pc \in {"done", "done_unscanned", "returned_empty", "raised"}
    /\ pass_pc' = "idle"
    /\ rag_hashes' = NoHashes
    /\ dms_ids' = {}
    /\ orphan_ids' = {}
    /\ tally' = NoTally
    /\ pipe' = [s \in Slots |-> IF s \in FullSlots THEN IdlePipe ELSE pipe[s]]
    /\ pass_clean' = TRUE
    /\ pass_alone' = TRUE
    /\ pass_docs' = {}
    /\ cleaned' = {}
    /\ cleanup_store' = {}
    /\ UNCHANGED <<elsewhere, lax_str, dms, cache_filled, cache, store>>

NextRepass ==
    \/ DoSyncStart
    \/ \E r \in {"ok", "fail"} : FillCacheReturn(r)
    \/ \E r \in {"ok", "fail"} : LoadHashesReturn(r)
    \/ \E s \in FullSlots : StartPipeline(s)
    \/ \E s \in FullSlots, r \in {"ok", "fail"} : EmbedReturn(s, r)
    \/ \E s \in FullSlots, r \in {"ok", "fail"} : DeleteReturn(s, r)
    \/ \E s \in FullSlots, r \in {"ok", "rejected", "fail"} : UpsertReturn(s, r)
    \/ GatherDone
    \/ \E r \in {"ok", "fail"} : CleanupScanReturn(r)
    \/ \E o \in orphan_ids, r \in {"ok", "fail"} : CleanupDeleteReturn(o, r)
    \/ PassAgain
    \/ \E e \in RepassDocStates : SourceChange(e)

SpecRepass == InitRepass /\ [][NextRepass]_vars

(* do_full_sync: one do_sync after the other, pair by pair; each do_sync   *)
(* fans its documents out against a gate of DOC_CONCURRENCY permits. The   *)
(* body of a pipeline (its requests) is the one modelled above; here a     *)
(* pipeline is waiting at the gate, inside it, or out of it with one of    *)
(* its three outcomes.                                                     *)
SyncIdle ==
    /\ lax_str = TRUE
    /\ dms = [d \in DocIds |-> Absent]
    /\ cache_filled = FALSE
    /\ cache = [d \in DocIds |-> Absent]
    /\ store = {}
    /\ pass_pc = "idle"
    /\ rag_hashes = NoHashes
    /\ dms_ids = {}
    /\ orphan_ids = {}
    /\ tally = NoTally
    /\ pipe = [s \in Slots |-> IdlePipe]
    /\ pass_clean = TRUE
    /\ pass_alone = TRUE
    /\ pass_docs = {}
    /\ cleaned = {}
    /\ cleanup_store = {}

Holding == {d \in GateIds : fan[d].pc = "holding"}

\* do_full_sync is called: do_sync of the first pair starts with fill_cache.
FullSyncStart ==
    /\ full_pc = "idle"
    /\ full_pc' = "fill"
    /\ pair' = 1
    /\ ran' = {1}
    /\ fan' = IdleFan
    /\ UNCHANGED <<sync_vars, incr, hook, twice, call>>

\* do_sync of the running pair has returned: the loop calls do_sync for
\* the next pair, or do_full_sync returns.
DoSyncReturned ==
    IF pair < MaxPairs
    THEN /\ full_pc' = "fill"
         /\ pair' = pair + 1
         /\ ran' = ran \cup {pair + 1}
         /\ fan' = IdleFan
    ELSE /\ full_pc' = "done"
         /\ UNCHANGED <<pair, ran, fan>>

\* fill_cache returns with n documents enumerated, or raises. Nothing in
\* do_sync or do_full_sync catches what it raises. With no document do_sync
\* returns at once; otherwise the hashes are loaded (_load_rag_hashes
\* catches its own errors) and one pipeline per document is created.
FullFillCacheReturn(r, n) ==
    /\ full_pc = "fill"
    /\ IF r = "fail"
       THEN /\ full_pc' = "raised"
            /\ UNCHANGED <<pair, ran, fan>>
       ELSE IF n = 0
       THEN DoSyncReturned
       ELSE /\ full_pc' = "gather"
            /\ fan' = [d \in GateIds |->
                          IF d <= n
                          THEN [pc |-> "waiting", outcome |-> "none", pair |-> pair]
                          ELSE NoPipeline]
            /\ UNCHANGED <<pair, ran>>
    /\ UNCHANGED <<sync_vars, incr, hook, twice, call>>

\* A fan-out without the gate: every waiting pipeline enters.
FanAcquire_NoGate(d) ==
    /\ full_pc = "gather"
    /\ fan[d].pc = "waiting"
    /\ fan' = [fan EXCEPT ![d].pc = "holding"]
    /\ UNCHANGED <<full_pc, pair, ran>>
    /\ UNCHANGED <<sync_vars, incr, hook, twice, call>>

\* async with sem: a waiting pipeline enters when a permit is free.
FanAcquire(d) ==
    /\ full_pc = "gather"
    /\ fan[d].pc = "waiting"
    /\ Cardinality(Holding) < DOC_CONCURRENCY
    /\ fan' = [fan EXCEPT ![d].pc = "holding"]
    /\ UNCHANGED <<full_pc, pair, ran>>
    /\ UNCHANGED <<sync_vars, incr, hook, twice, call>>

\* A gate taken with acquire() and given back only on the return paths: a
\* pipeline that raises keeps its permit.
FanRelease_LeakOnError(d, outcome) ==
    /\ full_pc = "gather"
    /\ fan[d].pc = "holding"
    /\ fan' = [fan EXCEPT ![d].pc = IF outcome = "error" THEN "holding" ELSE "released",
                          ![d].outcome = outcome]
    /\ UNCHANGED <<full_pc, pair, ran>>
    /\ UNCHANGED <<sync_vars, incr, hook, twice, call>>

\* The body returns True, returns False or raises: each leaves the
\* async with block, which gives the permit back.
FanRelease(d, outcome) ==
    /\ full_pc = "gather"
    /\ fan[d].pc = "holding"
    /\ fan' = [fan EXCEPT ![d].pc = "released", ![d].outcome = outcome]
    /\ UNCHANGED <<full_pc, pair, ran>>
    /\ UNCHANGED <<sync_vars, incr, hook, twice, call>>

\* gather(..., return_exceptions=True) returns once every pipeline is over;
\* the tally is logged and _cleanup_orphans is awaited.
FullGatherDone ==
    /\ full_pc = "gather"
    /\ \A d \in GateIds : fan[d].pc \in {"none", "released"}
    /\ full_pc' = "cleanup"
    /\ UNCHANGED <<pair, ran, fan>>
    /\ UNCHANGED <<sync_vars, incr, hook, twice, call>>

\* _cleanup_orphans catches its own errors: do_sync returns.
FullCleanupReturn ==
    /\ full_pc = "cleanup"
    /\ DoSyncReturned
    /\ UNCHANGED <<sync_vars, incr, hook, twice, call>>

\* The service constructed, nothing called yet.
InitIdle ==
    /\ SyncIdle
    /\ ElsewhereIdle

NextFull ==
    \/ FullSyncStart
    \/ \E r \in {"ok", "fail"}, n \in {0, 1, GateDocs} : FullFillCacheReturn(r, n)
    \/ \E d \in GateIds : FanAcquire(d)
    \/ \E d \in GateIds, o \in {"synced", "skipped", "error"} : FanRelease(d, o)
    \/ FullGatherDone
    \/ FullCleanupReturn

SpecFull == InitIdle /\ [][NextFull]_vars

\* Every collaborator call returns or raises, so a pipeline inside the gate
\* leaves it; the event loop runs a pipeline that can enter the gate, and
\* gather returns once its pipelines are over.
FairFull ==
    /\ WF_vars(\E d \in GateIds : FanAcquire(d))
    /\ WF_vars(\E d \in GateIds, o \in {"synced", "skipped", "error"} : FanRelease(d, o))
    /\ WF_vars(FullGatherDone)

SpecFullFair == SpecFull /\ FairFull

(* do_incremental_sync: the document is fetched from each dms client in    *)
(* turn and, where that succeeds, run through _sync_document against each  *)
(* rag client in turn.                                                     *)

\* The loops advance: the next dms client, or the end of the function.
LoopNextSource(i) ==
    IF i.src < MaxClients
    THEN [i EXCEPT !.pc = "fetch", !.src = @ + 1, !.tgt = 0]
    ELSE [i EXCEPT !.pc = "returned"]

LoopNextTarget(i) ==
    IF i.tgt < MaxClients
    THEN [i EXCEPT !.pc = "pipeline", !.tgt = @ + 1]
    ELSE LoopNextSource(i)

\* do_incremental_sync is called: it awaits the first dms client.
LoopStart ==
    /\ incr.pc = "idle"
    /\ incr' = [incr EXCEPT !.pc = "fetch", !.src = 1]
    /\ UNCHANGED <<sync_vars, full_vars, hook, twice, call>>

\* A do_incremental_sync without the try block around the fetch.
LoopFetchReturn_Raise(r) ==
    /\ incr.pc = "fetch"
    /\ LET i == [incr EXCEPT !.fetched[incr.src] = r]
       IN  incr' = IF r = "fail" THEN [i EXCEPT !.pc = "raised"] ELSE LoopNextTarget(i)
    /\ UNCHANGED <<sync_vars, full_vars, hook, twice, call>>

\* fill_cache, do_fetch_document_details and the building of the document
\* are over: what they raise is logged and the loop continues with the next
\* dms client; otherwise the pipeline is awaited for the first rag client.
LoopFetchReturn(r) ==
    /\ incr.pc = "fetch"
    /\ LET i == [incr EXCEPT !.fetched[incr.src] = r]
       IN  incr' = IF r = "fail" THEN LoopNextSource(i) ELSE LoopNextTarget(i)
    /\ UNCHANGED <<sync_vars, full_vars, hook, twice, call>>

\* _sync_document returns True or False, or raises: each is logged and the
\* loop continues with the next rag client.
LoopPipelineReturn(o) ==
    /\ incr.pc = "pipeline"
    /\ incr' = LoopNextTarget([incr EXCEPT !.piped[<<incr.src, incr.tgt>>] = o])
    /\ UNCHANGED <<sync_vars, full_vars, hook, twice, call>>

NextIncr ==
    \/ LoopStart
    \/ \E r \in {"ok", "fail"} : LoopFetchReturn(r)
    \/ \E o \in {"synced", "skipped", "error"} : LoopPipelineReturn(o)

SpecIncr == InitIdle /\ [][NextIncr]_vars

(* The webhook handlers. Each hands do_incremental_sync to the event loop  *)
(* and returns; the task runs later and ends with the document synced,     *)
(* skipped or in error (do_incremental_sync itself returns None).          *)
HookDocIds == {PyInt(d) : d \in DocIds}

\* A handler that awaits the sync and reports how it ended.
webhook_document_Awaiting(q, id) ==
    /\ hook[q].pc = "none"
    /\ id \in HookDocIds
    /\ \E o \in {"synced", "skipped", "error"} :
          hook' = [hook EXCEPT ![q] =
                     [pc |-> "acked", handler |-> "webhook_document", document_id |-> id,
                      ack |-> [status |-> IF o = "error" THEN "failed" ELSE "accepted",
                               document_id |-> id],
                      tasks |-> 1, task |-> o]]
    /\ UNCHANGED <<sync_vars, full_vars, incr, twice, call>>

\* server/routers: the body is a WebhookRequest, so the handler runs only
\* for a request with an int document_id; add_task queues the sync behind
\* the response.
webhook_document(q, id) ==
    /\ hook[q].pc = "none"
    /\ id \in HookDocIds
    /\ hook' = [hook EXCEPT ![q] =
                  [pc |-> "acked", handler |-> "webhook_document", document_id |-> id,
                   ack |-> [status |-> "accepted", document_id |-> id],
                   tasks |-> 1, task |-> "pending"]]
    /\ UNCHANGED <<sync_vars, full_vars, incr, twice, call>>

\* server/api/routers: the body is read as JSON; create_task is called only
\* when it has a document_id, and the response is returned either way.
handle_document_webhook(q, id) ==
    /\ hook[q].pc = "none"
    /\ id \in HookDocIds \cup {None}
    /\ hook' = [hook EXCEPT ![q] =
                  [pc |-> "acked", handler |-> "handle_document_webhook", document_id |-> id,
                   ack |-> [status |-> "accepted", document_id |-> id],
                   tasks |-> IF id # None THEN 1 ELSE 0,
                   task |-> IF id # None THEN "pending" ELSE "none"]]
    /\ UNCHANGED <<sync_vars, full_vars, incr, twice, call>>

\* The event loop starts the task: do_incremental_sync runs.
HookTaskStart(q) ==
    /\ hook[q].task = "pending"
    /\ hook' = [hook EXCEPT ![q].task = "running"]
    /\ UNCHANGED <<sync_vars, full_vars, incr, twice, call>>

\* do_incremental_sync returns, the document synced, skipped or in error.
HookTaskEnd(q, o) ==
    /\ hook[q].task = "running"
    /\ hook' = [hook EXCEPT ![q].task = o]
    /\ UNCHANGED <<sync_vars, full_vars, incr, twice, call>>

NextHook ==
    \/ \E q \in Requests, id \in HookDocIds : webhook_document(q, id)
    \/ \E q \in Requests, id \in HookDocIds \cup {None} : handle_document_webhook(q, id)
    \/ \E q \in Requests : HookTaskStart(q)
    \/ \E q \in Requests, o \in {"synced", "skipped", "error"} : HookTaskEnd(q, o)

SpecHook == InitIdle /\ [][NextHook]_vars

(* Two sequential incremental syncs of document 1, which is eligible and   *)
(* does not change; the store starts empty or with the points of an        *)
(* earlier version.                                                        *)
InitTwice ==
    /\ lax_str \in BOOLEAN
    /\ \E c \in {TextShort, TextLong} :
          dms = [d \in DocIds |-> IF d = 1 THEN Present(Owner7, c) ELSE Absent]
    /\ cache_filled = FALSE
    /\ cache = [d \in DocIds |-> Absent]
    /\ \E f \in [{1} -> {Absent, Present(Owner7, TextShort), Present(Owner7, TextLong)}] :
          store = OnFile(f) \cup {OtherPoint}
    /\ pass_pc = "idle"
    /\ rag_hashes = NoHashes
    /\ dms_ids = {}
    /\ orphan_ids = {}
    /\ tally = NoTally
    /\ pipe = [s \in Slots |-> IdlePipe]
    /\ pass_clean = TRUE
    /\ pass_alone = TRUE
    /\ pass_docs = {}
    /\ cleaned = {}
    /\ cleanup_store = {}
    /\ ElsewhereIdle

\* do_incremental_sync(1) is called, the second time once the first has
\* returned; the fetch succeeds and _sync_document starts with an empty map.
TwiceRun ==
    /\ twice.run < 2
    /\ pipe[IncrSlot].pc = IF twice.run = 0 THEN "idle" ELSE "done"
    /\ pipe' = [pipe EXCEPT ![IncrSlot] = Begin(DocOf(1, dms[1]), NoHashes)]
    /\ twice' = [run |-> twice.run + 1,
                 first_synced |-> pipe[IncrSlot].outcome = "synced",
                 after_first |-> IF twice.run = 1 THEN store ELSE {}]
    /\ UNCHANGED <<lax_str, dms, cache_filled, cache, store, pass_pc, rag_hashes,
                   dms_ids, orphan_ids, tally, pass_clean, pass_alone, pass_docs,
                   cleaned, cleanup_store, full_vars, incr, hook, call>>

NextTwice ==
    \/ TwiceRun
    \/ \E r \in {"ok", "fail"} : EmbedReturn(IncrSlot, r)
    \/ \E r \in {"ok", "fail"} : DeleteReturn(IncrSlot, r)
    \/ \E r \in {"ok", "fail"} : UpsertReturn(IncrSlot, r)

SpecTwice == InitTwice /\ [][NextTwice]_vars

(* _compute_doc_hash called on two document snapshots.                     *)
HashDocs ==
    LET contents == {None, Str(<<>>), Str(Run("a", 1)),
                     Str(Join(<<Run("a", 1), Run("b", 1)>>, Run("|", 1)))}
        titles == {None, Str(Run("c", 1)),
                   Str(Join(<<Run("b", 1), Run("c", 1)>>, Run("|", 1)))}
        owners == {None, PyInt(0), Owner7}
        tags == {<<>>, <<PyInt(2), PyInt(10)>>, <<PyInt(10), PyInt(2)>>}
        refs == {None, PyInt(3)}
    IN  {[MkDoc(1, o, c) EXCEPT !.title = t, !.tag_ids = g,
                                !.correspondent_id = k, !.document_type_id = y] :
            c \in contents, t \in titles, o \in owners,
            g \in tags, k \in refs, y \in refs}

InitHash ==
    /\ SyncIdle
    /\ ServicesIdle
    /\ \E a \in HashDocs, b \in HashDocs :
          call = [NoCall EXCEPT !.fn = "_compute_doc_hash", !.args = <<a, b>>]

\* The fingerprint of each of the two snapshots is computed.
HashReturn ==
    /\ call.fn = "_compute_doc_hash"
    /\ ~call.returned
    /\ call' = [call EXCEPT !.returned = TRUE,
                            !.result = <<_compute_doc_hash(call.args[1]),
                                         _compute_doc_hash(call.args[2])>>]
    /\ UNCHANGED <<sync_vars, full_vars, incr, hook, twice>>

SpecHash == InitHash /\ [][HashReturn]_vars

(* The points _sync_document builds, for two snapshots of one document: a  *)
(* title that is None, empty or not, the tag ids with the names they       *)
(* resolve to, the owner's username and the creation date.                 *)
InitPayload ==
    /\ SyncIdle
    /\ ServicesIdle
    /\ LET docs == {[MkDoc(1, Owner7, TextShort)
                        EXCEPT !.title = t, !.tag_ids = g, !.tags = n,
                               !.owner = u, !.created_date = c] :
                        t \in {None, Str(<<>>), Str(Run("t", 1))},
                        g \in {<<>>, <<PyInt(2)>>},
                        n \in {<<>>, <<Str(Run("n", 1))>>},
                        u \in {None, Str(Run("u", 1))},
                        c \in {None, <<"date", 20240101>>}}
       IN  \E a \in docs, b \in docs :
              call = [NoCall EXCEPT !.fn = "points", !.args = <<a, b>>]

\* The fingerprint and the points of each of the two snapshots.
PayloadReturn ==
    /\ call.fn = "points"
    /\ ~call.returned
    /\ call' = [call EXCEPT !.returned = TRUE,
                            !.result = <<_compute_doc_hash(call.args[1]),
                                         _compute_doc_hash(call.args[2]),
                                         BuildPoints(call.args[1]),
                                         BuildPoints(call.args[2])>>]
    /\ UNCHANGED <<sync_vars, full_vars, incr, hook, twice>>

SpecPayload == InitPayload /\ [][PayloadReturn]_vars

(* _split_text called on a text of every length up to MaxLen, on the empty *)
(* text, on texts of blanks and on a text with blanks around it. A text of *)
(* BlockText changes its character every 80 characters, through the        *)
(* alphabet, so that a substring tells where it was taken from. The call's *)
(* args are the text and the loop's local `start`.                         *)
BlockText(n) ==
    LET ch == <<"a", "b", "c", "d", "e", "f", "g", "h", "i", "j", "k", "l", "m",
                "n", "o", "p", "q", "r", "s", "t", "u", "v", "w", "x", "y", "z">>
        blocks == (n + 79) \div 80
    IN  Str([i \in 1..blocks |-> <<ch[((i - 1) % 26) + 1], min(80, n - 80 * (i - 1))>>])

InitSplit ==
    /\ SyncIdle
    /\ ServicesIdle
    /\ \E text \in {BlockText(n) : n \in 1..MaxLen}
                     \cup {Str(Run(" ", n)) : n \in 0..3}
                     \cup {Str(<< <<" ", 1>>, <<"x", 2>>, <<" ", 1>> >>)} :
          call = [NoCall EXCEPT !.fn = "_split_text", !.args = <<text, 0>>]

\* _split_text returns the chunk list.
SplitReturn ==
    /\ call.fn = "_split_text"
    /\ ~call.returned
    /\ call' = [call EXCEPT !.returned = TRUE, !.result = _split_text(call.args[1])]
    /\ UNCHANGED <<sync_vars, full_vars, incr, hook, twice>>

SpecSplit == InitSplit /\ [][SplitReturn]_vars

(* The same call, one turn of its while loop at a time: `if not text`      *)
(* returns at once; a turn appends text[start:end] and either breaks, the  *)
(* end of the text reached, or moves start to end - CHUNK_OVERLAP. The     *)
(* texts are of one character repeated, every length up to MaxLen.         *)
SplitCall ==
    /\ call = NoCall
    /\ \E text \in {Str(Run("x", n)) : n \in 0..MaxLen} \cup {TextBlank} :
          call' = [NoCall EXCEPT !.fn = "_split_text", !.args = <<text, 0>>]
    /\ UNCHANGED <<sync_vars, full_vars, incr, hook, twice>>

SplitIter_NoOverlap ==
    /\ call.fn = "_split_text"
    /\ ~call.returned
    /\ LET text == Runs(call.args[1])
           start == call.args[2]
           end == min(start + CHUNK_SIZE, StrLen(text))
       IN  IF text = <<>> \/ ~(start < StrLen(text))
           THEN call' = [call EXCEPT !.returned = TRUE]
           ELSE call' = [call EXCEPT
                            !.result = Append(@, Str(Slice(text, start, end))),
                            !.returned = (end >= StrLen(text)),
                            !.args[2] = IF end >= StrLen(text) THEN start ELSE end]
    /\ UNCHANGED <<sync_vars, full_vars, incr, hook, twice>>

SplitIter ==
    /\ call.fn = "_split_text"
    /\ ~call.returned
    /\ LET text == Runs(call.args[1])
           start == call.args[2]
           end == min(start + CHUNK_SIZE, StrLen(text))
       IN  IF text = <<>> \/ ~(start < StrLen(text))
           THEN call' = [call EXCEPT !.returned = TRUE]
           ELSE call' = [call EXCEPT
                            !.result = Append(@, Str(Slice(text, start, end))),
                            !.returned = (end >= StrLen(text)),
                            !.args[2] = IF end >= StrLen(text) THEN start
                                        ELSE end - CHUNK_OVERLAP]
    /\ UNCHANGED <<sync_vars, full_vars, incr, hook, twice>>

\* The loop is not preempted for ever: every turn that can run does.
SpecSplitLoop == InitIdle /\ [][SplitCall \/ SplitIter]_vars /\ WF_vars(SplitIter)

(* --------------------------- do_scroll_all ---------------------------- *)
(* A backend that serves the matching points in MaxPages pages at most.   *)
(* Page i holds up to MaxPageLen points (they stand for the page_size of  *)
(* 1000), numbered 10 * i + j so that no two pages share a point, and     *)
(* every page but the last names the next one in next_page_offset: the    *)
(* cursor is the id of a point, a non-empty string.                       *)
Page(i, n, k) ==
    [result |-> [j \in 1..n |-> 10 * i + j],
     next_page_offset |-> IF i < k THEN PyStr(i + 1) ELSE None]

ScrollBackends ==
    UNION {{[i \in 1..k |-> Page(i, lens[i], k)] : lens \in [1..k -> 0..MaxPageLen]} :
              k \in 1..MaxPages}

\* do_scroll: the page the backend serves for the offset of the request
\* (get_scroll_payload leaves the offset out when it is None).
do_scroll(pages, offset) ==
    IF offset = None THEN pages[1] ELSE pages[offset[2]]

\* do_scroll_all is called: args are the backend, the offset variable, the
\* offsets of the scroll requests sent so far and the await it is at.
ScrollAllCall ==
    /\ call = NoCall
    /\ \E pages \in ScrollBackends :
          call' = [NoCall EXCEPT !.fn = "do_scroll_all",
                                 !.args = <<pages, None, <<>>, "count">>]
    /\ UNCHANGED <<sync_vars, full_vars, incr, hook, twice>>

\* do_count returns (raise_on_error: a failure leaves do_scroll_all) and the
\* first scroll request is sent with the offset None.
ScrollCountReturn(r) ==
    /\ call.fn = "do_scroll_all"
    /\ call.args[4] = "count"
    /\ r \in {"ok", "fail"}
    /\ call' = IF r = "fail"
               THEN [call EXCEPT !.args[4] = "raised"]
               ELSE [call EXCEPT !.args[3] = <<call.args[2]>>, !.args[4] = "scroll"]
    /\ UNCHANGED <<sync_vars, full_vars, incr, hook, twice>>

\* A loop that keeps the points of the page it fetched last.
ScrollPageReturn_KeepsLastPage(r) ==
    /\ call.fn = "do_scroll_all"
    /\ call.args[4] = "scroll"
    /\ r \in {"ok", "fail"}
    /\ LET page_result == do_scroll(call.args[1], call.args[2])
           offset == page_result.next_page_offset
       IN  call' = IF r = "fail"
                   THEN [call EXCEPT !.args[4] = "raised"]
                   ELSE IF offset = None \/ offset = EmptyStr
                   THEN [call EXCEPT !.result = page_result.result,
                                     !.args[2] = offset,
                                     !.args[4] = "returned",
                                     !.returned = TRUE]
                   ELSE [call EXCEPT !.result = page_result.result,
                                     !.args[2] = offset,
                                     !.args[3] = Append(@, offset)]
    /\ UNCHANGED <<sync_vars, full_vars, incr, hook, twice>>

\* One turn of the while loop: do_scroll returns, the page is appended to
\* all_points, offset takes the page's cursor; without a cursor the loop
\* breaks and all_points is returned, else the next request is sent.
ScrollPageReturn(r) ==
    /\ call.fn = "do_scroll_all"
    /\ call.args[4] = "scroll"
    /\ r \in {"ok", "fail"}
    /\ LET page_result == do_scroll(call.args[1], call.args[2])
           offset == page_result.next_page_offset
       IN  call' = IF r = "fail"
                   THEN [call EXCEPT !.args[4] = "raised"]
                   ELSE IF offset = None \/ offset = EmptyStr
                   THEN [call EXCEPT !.result = @ \o page_result.result,
                                     !.args[2] = offset,
                                     !.args[4] = "returned",
                                     !.returned = TRUE]
                   ELSE [call EXCEPT !.result = @ \o page_result.result,
                                     !.args[2] = offset,
                                     !.args[3] = Append(@, offset)]
    /\ UNCHANGED <<sync_vars, full_vars, incr, hook, twice>>

NextScroll ==
    \/ ScrollAllCall
    \/ \E r \in {"ok", "fail"} : ScrollCountReturn(r)
    \/ \E r \in {"ok", "fail"} : ScrollPageReturn(r)

SpecScroll == InitIdle /\ [][NextScroll]_vars

(* ----------------------------- fill_cache ----------------------------- *)
(* The caches of one DMS client over several calls of fill_cache. A cache  *)
(* is None until its getter has fetched it, then a dict, given by its      *)
(* number of entries: the empty dict is a populated cache. The backend     *)
(* answers a fetch with any number of entries up to MaxEntries, or fails.  *)
\* The getters in the order fill_cache calls them.
CacheGetters == <<"document_types", "owners", "tags", "correspondents", "documents">>
CacheNames == Range(CacheGetters) \cup {"enriched_documents"}
Dict(n) == <<"dict", n>>

\* DMSClientInterface.__init__: every cache is None.
NoCaches == [name \in CacheNames |-> None]

\* The caches of the client between two calls, or NoCaches before the first.
ClientCaches == IF call.fn = "fill_cache" THEN call.args[1] ELSE NoCaches

\* fill_cache(force_refresh) is called: args are the caches, force_refresh,
\* the step the call is at, the getter it is at, the caches at the call,
\* the number of calls so far and whether an earlier call raised; result
\* is the list of the caches fetched from the backend in this call.
FillCacheCall(force_refresh) ==
    /\ call = NoCall \/ (call.fn = "fill_cache" /\ call.returned)
    /\ (IF call = NoCall THEN 0 ELSE call.args[6]) < MaxCalls
    /\ call' = [NoCall EXCEPT
                   !.fn = "fill_cache",
                   !.args = <<ClientCaches, force_refresh, "get", 1, ClientCaches,
                              (IF call = NoCall THEN 0 ELSE call.args[6]) + 1,
                              call # NoCall /\ (call.args[7] \/ call.args[3] = "raised")>>]
    /\ UNCHANGED <<sync_vars, full_vars, incr, hook, twice>>

\* A getter that fetches again when its cache is empty ('if not cache').
GetterReturn_RefetchEmpty(r, n) ==
    /\ call.fn = "fill_cache" /\ ~call.returned
    /\ call.args[3] = "get"
    /\ r \in {"ok", "fail"}
    /\ n \in 0..MaxEntries
    /\ LET name == CacheGetters[call.args[4]]
           on == [call EXCEPT !.args[3] = IF call.args[4] = Len(CacheGetters)
                                          THEN "enrich" ELSE "get",
                              !.args[4] = IF call.args[4] = Len(CacheGetters)
                                          THEN @ ELSE @ + 1]
       IN  call' = IF call.args[1][name] \notin {None, Dict(0)} /\ ~call.args[2]
                   THEN on
                   ELSE IF r = "fail"
                   THEN [call EXCEPT !.result = Append(@, name),
                                     !.args[3] = "raised", !.returned = TRUE]
                   ELSE [on EXCEPT !.result = Append(@, name),
                                   !.args[1][name] = Dict(n)]
    /\ UNCHANGED <<sync_vars, full_vars, incr, hook, twice>>

\* get_document_types, get_owners, get_tags, get_correspondents and
\* get_documents: a cache that is not None is returned as it is unless
\* force is set; else the backend is asked, a failure raises out of
\* fill_cache and the cache is assigned only when all was fetched.
GetterReturn(r, n) ==
    /\ call.fn = "fill_cache" /\ ~call.returned
    /\ call.args[3] = "get"
    /\ r \in {"ok", "fail"}
    /\ n \in 0..MaxEntries
    /\ LET name == CacheGetters[call.args[4]]
           on == [call EXCEPT !.args[3] = IF call.args[4] = Len(CacheGetters)
                                          THEN "enrich" ELSE "get",
                              !.args[4] = IF call.args[4] = Len(CacheGetters)
                                          THEN @ ELSE @ + 1]
       IN  call' = IF call.args[1][name] # None /\ ~call.args[2]
                   THEN on
                   ELSE IF r = "fail"
                   THEN [call EXCEPT !.result = Append(@, name),
                                     !.args[3] = "raised", !.returned = TRUE]
                   ELSE [on EXCEPT !.result = Append(@, name),
                                   !.args[1][name] = Dict(n)]
    /\ UNCHANGED <<sync_vars, full_vars, incr, hook, twice>>

\* The end of fill_cache: the enriched documents are built from the caches,
\* one per cached document, unless they exist and force_refresh is not set.
EnrichReturn ==
    /\ call.fn = "fill_cache" /\ ~call.returned
    /\ call.args[3] = "enrich"
    /\ call' = IF call.args[1]["enriched_documents"] # None /\ ~call.args[2]
               THEN [call EXCEPT !.args[3] = "returned", !.returned = TRUE]
               ELSE [call EXCEPT !.args[1]["enriched_documents"] = call.args[1]["documents"],
                                 !.args[3] = "returned", !.returned = TRUE]
    /\ UNCHANGED <<sync_vars, full_vars, incr, hook, twice>>

NextCache ==
    \/ \E force_refresh \in BOOLEAN : FillCacheCall(force_refresh)
    \/ \E r \in {"ok", "fail"}, n \in 0..MaxEntries : GetterReturn(r, n)
    \/ EnrichReturn

SpecCache == InitIdle /\ [][NextCache]_vars

(* ------------------------------ claims -------------------------------- *)
PassReturned == pass_pc \in {"done", "done_unscanned", "returned_empty"}

\* The points a pass should leave for the source: for every enumerated
\* document that passes validation, the points of its current content.
ExpectedPoints(c) ==
    UNION {IF _validate_document(DocOf(d, c[d]))
           THEN Range(BuildPoints(DocOf(d, c[d]))) ELSE {} : d \in Enumerated(c)}

\* C1: after a do_sync pass in which every collaborator call succeeded and no
\* other pipeline ran, the store's points of the source are exactly one point
\* per chunk of every enumerated eligible document, and no other.
C1_PassLeavesExactIndex ==
    (PassReturned /\ pass_clean /\ pass_alone)
        => ScrollEngine(store, Engine) = ExpectedPoints(cache)

\* C2: no pipeline issues an upsert for a document without owner id, and
\* every point passed to do_upsert_points carries a non-empty owner_id, the
\* (string of the) owner id of the document it was built from.
C2_OwnerAlwaysWritten ==
    /\ \A s \in Slots : \A p \in pipe[s].sent :
          /\ Truthy(pipe[s].doc.owner_id)
          /\ p.owner_id # None
          /\ p.owner_id # EmptyStr
          /\ p.owner_id = str(pipe[s].doc.owner_id)
    /\ \A s \in Slots : ~Truthy(pipe[s].doc.owner_id) => pipe[s].n_upsert = 0

C2_Witness ==
    /\ \E s \in Slots : pipe[s].sent # {}
    /\ \E s \in Slots : /\ pipe[s].stage = "ineligible"
                        /\ ~Truthy(pipe[s].doc.owner_id)

\* C3: when a pipeline run finds its document ineligible, then at the moment
\* it returns 'skipped' the scoped delete has been issued and the store holds
\* no point of that (source, document id).  (Stated here for the runs whose
\* delete call succeeded.)
C3_IneligibleRetracted ==
    [][\A s \in Slots :
          (pipe[s].pc = "retract" /\ pipe'[s].pc = "done" /\ pipe'[s].failed = "none")
              => /\ pipe'[s].outcome = "skipped"
                 /\ pipe'[s].n_delete = 1
                 /\ PointsOf(store', Engine, pipe[s].doc.id[2]) = {}]_vars

\* C4: after a completed full-sync pass with all calls succeeding, the store
\* holds no point of the source whose document id is absent from the
\* documents the source had at pass start (the empty set included).
C4_NoPointOfRemovedDocument ==
    (PassReturned /\ pass_clean)
        => \A p \in ScrollEngine(store, Engine) :
              \E d \in pass_docs : p.dms_doc_id = PyStr(d)

\* C5: _cleanup_orphans, when the scan and all deletes succeed, deletes
\* exactly the document ids found in the payloads of the source's points
\* that are not in the given id set; no point of such an id remains, and the
\* points of the given ids and of other sources are untouched.
C5_CleanupExact ==
    (pass_pc = "done" /\ pass_clean)
        => /\ cleaned = {str(p.dms_doc_id) :
                             p \in {q \in cleanup_store : q.dms_engine = Engine}} \ dms_ids
           /\ store = {p \in cleanup_store :
                          \/ p.dms_engine # Engine
                          \/ str(p.dms_doc_id) \in dms_ids}

C5_Witness ==
    /\ pass_pc = "done" /\ pass_clean
    /\ cleaned # {}
    /\ \E p \in store : p.dms_engine = Engine /\ p.dms_doc_id \in dms_ids
    /\ OtherPoint \in store
    /\ store # cleanup_store

\* C6: in a full-sync pass, an eligible document whose fresh fingerprint
\* equals the one in the pre-loaded map ends 'skipped' with no embedding
\* call, no delete and no upsert, and the store is left as it was.
C6_UnchangedSkipIsFree ==
    [][\A s \in FullSlots :
          (/\ pipe[s].pc = "ready" /\ pipe'[s].pc # "ready"
           /\ Truthy(pipe[s].doc.owner_id)
           /\ strip(Runs(pipe[s].doc.content)) # <<>>
           /\ Lookup(rag_hashes, PyStr(s)) = _compute_doc_hash(pipe[s].doc))
              => /\ pipe'[s].pc = "done"
                 /\ pipe'[s].outcome = "skipped"
                 /\ pipe'[s].n_embed = 0
                 /\ pipe'[s].n_delete = 0
                 /\ pipe'[s].n_upsert = 0
                 /\ store' = store
                 /\ pipe'[s].sent = {}]_vars

C6_Witness ==
    \E s \in FullSlots :
        /\ pipe[s].pc = "done" /\ pipe[s].stage = "unchanged"
        /\ PointsOf(store, Engine, s) = Range(BuildPoints(pipe[s].doc))

AloneOnDocument(s) ==
    \A t \in Slots \ {s} : InFlight(t) => pipe[t].doc.id # pipe[s].doc.id

C9_EmbedFailureTouchesNothing ==
    /\ [](\A s \in Slots :
            pipe[s].failed = "embed"
                => /\ pipe[s].pc = "done" /\ pipe[s].outcome = "error"
                   /\ pipe[s].n_embed = 1
                   /\ pipe[s].n_delete = 0
                   /\ pipe[s].n_upsert = 0)
    /\ [][\A s \in Slots :
            (pipe'[s] # pipe[s] /\ pipe'[s].pc \in {"embed", "done"}
             /\ pipe'[s].n_delete = 0 /\ pipe'[s].outcome # "skipped")
                => store' = store]_vars

C9_Witness ==
    \E s \in Slots :
        /\ pipe[s].failed = "embed"
        /\ PointsOf(store, Engine, pipe[s].doc.id[2]) # {}

\* C10: if the delete-stale call fails, the pipeline ends in error and issues
\* no upsert for the document.
C10_DeleteFailureStopsWrite ==
    /\ [](\A s \in Slots :
            pipe[s].failed = "delete"
                => /\ pipe[s].pc = "done" /\ pipe[s].outcome = "error"
                   /\ pipe[s].n_upsert = 0
                   /\ pipe[s].sent = {})
    /\ [][\A s \in Slots :
            (pipe[s].pc = "delete" /\ pipe'[s].failed = "delete")
                => store' = store]_vars

C10_Witness ==
    \E s \in Slots : pipe[s].failed = "delete" /\ pipe[s].n_embed = 1

C12_EveryPairRuns ==
    full_pc \in {"done", "raised"} => ran = Pairs
\* C16: during do_full_sync at most DOC_CONCURRENCY pipelines are inside
\* the gate, all of them of the pair whose do_sync is running; the loop
\* moves to the next pair only when no pipeline of the running pair is
\* waiting or inside the gate, after its fan-out and its reconciliation.
C16_GateBoundsOnePair ==
    /\ [](/\ Cardinality(Holding) <= DOC_CONCURRENCY
          /\ \A d \in GateIds :
                fan[d].pc \in {"waiting", "holding"}
                    => fan[d].pair = pair /\ full_pc = "gather")
    /\ [][(pair # 0 /\ pair' # pair)
              => /\ \A d \in GateIds : fan[d].pc \in {"none", "released"}
                 /\ (\E d \in GateIds : fan[d].pc = "released") => full_pc = "cleanup"]_vars

\* The gate is full, a pipeline waits, and the pair is the second one.
C16_Witness ==
    /\ pair = 2
    /\ Cardinality(Holding) = DOC_CONCURRENCY
    /\ \E d \in GateIds : fan[d].pc = "waiting"

\* C17: with every collaborator call returning or raising, every pipeline
\* of a pass enters the gate and leaves it with one outcome (synced,
\* skipped or error) that it keeps, giving its permit back, and the fan-out
\* completes: gather returns.
C17_PipelinesTerminate ==
    /\ (\E d \in GateIds : fan[d].pc \in {"waiting", "holding"})
          ~> (/\ full_pc = "cleanup"
              /\ \A d \in GateIds : fan[d].pc \in {"none", "released"})
    /\ [](\A d \in GateIds :
            /\ fan[d].pc = "released" <=> fan[d].outcome \in {"synced", "skipped", "error"}
            /\ fan[d].pc = "released" => d \notin Holding)
    /\ [][\A d \in GateIds :
            fan[d].pc = "released" => (fan'[d] = fan[d] \/ fan' = IdleFan)]_vars

\* The fan-out of more documents than permits is over, with each of the
\* three outcomes among its pipelines.
C17_Witness ==
    /\ full_pc = "cleanup"
    /\ \A d \in GateIds : fan[d].pc = "released"
    /\ \A o \in {"synced", "skipped", "error"} : \E d \in GateIds : fan[d].outcome = o
\* C13: an incremental sync of an eligible document, none of whose calls
\* fails, has issued the embedding request, the delete-stale and at least
\* one upsert when it ends, whatever the target holds: it never ends on the
\* fingerprint comparison.
C13_IncrementalAlwaysWrites ==
    (/\ pipe[IncrSlot].pc = "done"
     /\ _validate_document(pipe[IncrSlot].doc)
     /\ pipe[IncrSlot].failed = "none")
        => /\ pipe[IncrSlot].stage # "unchanged"
           /\ pipe[IncrSlot].n_embed = 1
           /\ pipe[IncrSlot].n_delete = 1
           /\ pipe[IncrSlot].n_upsert >= 1
\* C14: do_incremental_sync never raises, and when it returns the fetch
\* was attempted for every dms client and the pipeline for every rag client
\* of every dms client whose fetch succeeded, whatever failed before.
C14_IncrementalIsolatesFailures ==
    /\ incr.pc \in {"idle", "fetch", "pipeline", "returned"}
    /\ incr.pc = "returned"
          => \A c \in Sources :
                /\ incr.fetched[c] \in {"ok", "fail"}
                /\ incr.fetched[c] = "ok"
                      => \A t \in Targets :
                            incr.piped[<<c, t>>] \in {"synced", "skipped", "error"}

\* The first dms client failed at the fetch, the second went through, its
\* pipeline failing against the first rag client and not against the last.
C14_Witness ==
    /\ incr.pc = "returned"
    /\ incr.fetched[1] = "fail"
    /\ incr.fetched[MaxClients] = "ok"
    /\ incr.piped[<<MaxClients, 1>>] = "error"
    /\ incr.piped[<<MaxClients, MaxClients>>] = "synced"
\* C15: a webhook request carrying a document id is answered 'accepted'
\* with exactly one do_incremental_sync task handed off, the task not yet
\* run when the answer is given; the answer and the count stay as they are
\* while the task runs and whatever it ends with.
C15_WebhookFireAndForget ==
    /\ [](\A q \in Requests :
            (hook[q].pc = "acked" /\ hook[q].document_id # None)
                => /\ hook[q].ack = [status |-> "accepted",
                                     document_id |-> hook[q].document_id]
                   /\ hook[q].tasks = 1)
    /\ [][\A q \in Requests :
            /\ (hook[q].pc = "none" /\ hook'[q].pc = "acked"
                    /\ hook'[q].document_id # None)
                  => hook'[q].task = "pending"
            /\ hook[q].pc = "acked"
                  => /\ hook'[q].ack = hook[q].ack
                     /\ hook'[q].tasks = hook[q].tasks]_vars

\* Two requests acknowledged alike, one by each handler; the sync of one
\* ended in error, that of the other synced the document.
C15_Witness ==
    /\ hook[1].handler = "webhook_document"
    /\ hook[1].task = "error"
    /\ hook[MaxRequests].handler = "handle_document_webhook"
    /\ hook[MaxRequests].task = "synced"
    /\ hook[1].ack.status = "accepted"
    /\ hook[MaxRequests].ack.status = "accepted"
\* C18: when two sequential runs of the pipeline for the same unchanged
\* eligible document both end synced with every call succeeding, the store
\* after the second run is the store after the first; it holds the point of
\* every chunk of the document, one point per (source, document id, chunk
\* index) and one per point id.
C18_SecondRunChangesNothing ==
    (/\ twice.run = 2
     /\ twice.first_synced
     /\ pipe[IncrSlot].pc = "done"
     /\ pipe[IncrSlot].outcome = "synced")
        => /\ store = twice.after_first
           /\ Range(BuildPoints(pipe[IncrSlot].doc)) \subseteq store
           /\ \A p1, p2 \in store :
                 (\/ p1.id = p2.id
                  \/ /\ p1.dms_engine = p2.dms_engine
                     /\ p1.dms_doc_id = p2.dms_doc_id
                     /\ p1.chunk_index = p2.chunk_index)
                    => p1 = p2

\* The second run of a document of several chunks has ended synced, the
\* first having left its points beside the point of another source.
C18_Witness ==
    /\ twice.run = 2
    /\ twice.first_synced
    /\ pipe[IncrSlot].pc = "done"
    /\ pipe[IncrSlot].outcome = "synced"
    /\ Len(BuildPoints(pipe[IncrSlot].doc)) > 1
    /\ Cardinality(twice.after_first) = 1 + Len(BuildPoints(pipe[IncrSlot].doc))
\* C19: two document snapshots get the same fingerprint exactly when they
\* agree on content and title (None counting as the empty string), on
\* owner id, on the label ids up to their order, on category id and on type
\* id.
C19_HashIffSameFields ==
    (call.fn = "_compute_doc_hash" /\ call.returned)
        => LET a == call.args[1]
               b == call.args[2]
           IN  (call.result[1] = call.result[2])
                  <=> /\ Runs(a.content) = Runs(b.content)
                      /\ Runs(a.title) = Runs(b.title)
                      /\ a.owner_id = b.owner_id
                      /\ \A g \in Range(a.tag_ids) \cup Range(b.tag_ids) :
                            Cardinality({i \in DOMAIN a.tag_ids : a.tag_ids[i] = g})
                              = Cardinality({i \in DOMAIN b.tag_ids : b.tag_ids[i] = g})
                      /\ a.correspondent_id = b.correspondent_id
                      /\ a.document_type_id = b.document_type_id
\* C20: the chunks of a non-empty text are non-empty and at most CHUNK_SIZE
\* long; chunk k is the text from CHUNK_SIZE - CHUNK_OVERLAP characters
\* after the start of chunk k-1, whose last CHUNK_OVERLAP characters are
\* the first ones of chunk k; and chunk 0 followed by the later chunks
\* without their first CHUNK_OVERLAP characters is the text.
C20_ChunksCoverText ==
    (call.fn = "_split_text" /\ call.returned /\ Runs(call.args[1]) # <<>>)
        => LET text == Runs(call.args[1])
               chunk == [k \in DOMAIN call.result |-> Runs(call.result[k])]
               n == Len(chunk)
               step == CHUNK_SIZE - CHUNK_OVERLAP
           IN  /\ n >= 1
               /\ \A k \in 1..n : StrLen(chunk[k]) \in 1..CHUNK_SIZE
               /\ \A k \in 2..n :
                     /\ chunk[k] = Slice(text, (k - 1) * step,
                                         (k - 1) * step + StrLen(chunk[k]))
                     /\ StrLen(chunk[k - 1]) = CHUNK_SIZE
                     /\ StrLen(chunk[k]) > CHUNK_OVERLAP
                     /\ Slice(chunk[k - 1], step, CHUNK_SIZE)
                            = Slice(chunk[k], 0, CHUNK_OVERLAP)
               /\ Join([k \in 1..n |->
                          IF k = 1 THEN chunk[k]
                          ELSE Slice(chunk[k], CHUNK_OVERLAP, StrLen(chunk[k]))],
                       <<>>) = text

\* A text of three chunks, the last one shorter than the others.
C20_Witness ==
    /\ call.fn = "_split_text"
    /\ call.returned
    /\ Len(call.result) = 3
    /\ StrLen(Runs(call.result[3])) < CHUNK_SIZE

\* C21: _split_text returns no chunk for the empty text and for a text that
\* is nothing but whitespace.
C21_BlankTextNoChunks ==
    (call.fn = "_split_text" /\ call.returned /\ strip(Runs(call.args[1])) = <<>>)
        => call.result = <<>>

\* C22: the loop of _split_text comes to its return for every text, and
\* what it returns for a text of L characters is ceil((L - CHUNK_OVERLAP) /
\* (CHUNK_SIZE - CHUNK_OVERLAP)) chunks when L > CHUNK_OVERLAP and one chunk
\* when 0 < L <= CHUNK_OVERLAP; they are the chunks of _split_text.
C22_LoopEndsWithCount ==
    /\ (call.fn = "_split_text") ~> call.returned
    /\ [](call.fn = "_split_text" /\ call.returned
            => LET L == StrLen(Runs(call.args[1]))
                   step == CHUNK_SIZE - CHUNK_OVERLAP
               IN  /\ call.result = _split_text(call.args[1])
                   /\ L > CHUNK_OVERLAP
                        => Len(call.result) = (L - CHUNK_OVERLAP + step - 1) \div step
                   /\ (0 < L /\ L <= CHUNK_OVERLAP) => Len(call.result) = 1)

\* A text one character longer than two chunks' reach: a third turn of the
\* loop returned its third chunk.
C22_Witness ==
    /\ call.fn = "_split_text"
    /\ call.returned
    /\ StrLen(Runs(call.args[1])) = 2 * CHUNK_SIZE - CHUNK_OVERLAP + 1
    /\ Len(call.result) = 3
    /\ call.args[2] = 2 * (CHUNK_SIZE - CHUNK_OVERLAP)

\* C23: when the scan of _cleanup_orphans fails, the cleanup ends there: no
\* orphan id is taken from what was scrolled and no delete is sent, the
\* store stays as it was, however many points of documents outside the
\* given id set it holds.
C23_FailedScanDeletesNothing ==
    /\ [](pass_pc = "done_unscanned"
            => orphan_ids = {} /\ cleaned = {} /\ store = cleanup_store)
    /\ [][/\ (pass_pc = "scan" /\ ~pass_clean') => pass_pc' = "done_unscanned"
          /\ pass_pc = "done_unscanned" => UNCHANGED <<pass_pc, store, orphan_ids, cleaned>>]_vars

\* The scan failed over a store that holds the points of two documents
\* outside the given id set.
C23_Witness ==
    /\ pass_pc = "done_unscanned"
    /\ Cardinality(Orphans(store, Engine, dms_ids)) >= 2

\* C24: every step of the orphan loop takes up one more orphan id, whether
\* its delete succeeds or fails; a failed delete leaves the store as it was
\* and the loop goes on to the ids that are left, ending (never raising to
\* do_sync) only when none is left.
C24_FailedDeleteDoesNotStopLoop ==
    /\ [](pass_pc = "orphans" => orphan_ids # {})
    /\ [](pass_pc = "done" => orphan_ids = {})
    /\ [][pass_pc = "orphans"
            => /\ orphan_ids' \subseteq orphan_ids
               /\ Cardinality(orphan_ids \ orphan_ids') = 1
               /\ pass_pc' = IF orphan_ids' = {} THEN "done" ELSE "orphans"
               /\ \A o \in orphan_ids \ orphan_ids' :
                     \/ store' = DeleteByFilter(store, Engine, o) /\ cleaned' = cleaned \cup {o}
                     \/ store' = store /\ cleaned' = cleaned /\ ~pass_clean']_vars

\* A pass in which the delete of one orphan failed, its points still on
\* file, and the delete of another one went through.
C24_Witness ==
    /\ pass_pc = "done"
    /\ ~pass_clean
    /\ cleaned # {}
    /\ Orphans(store, Engine, dms_ids) # {}

\* C25: a pass that has read its documents works on the source as it is in
\* that pass: it enumerates the documents the source held when the pass
\* began, each with the content (and so the fingerprint) it has there.
C25_PassSeesSourceAtStart ==
    pass_pc \in {"load", "fanout", "scan", "orphans", "done", "done_unscanned",
                 "returned_empty"}
        => /\ Enumerated(cache) = pass_docs
           /\ \A d \in pass_docs :
                 _compute_doc_hash(DocOf(d, cache[d])) = _compute_doc_hash(DocOf(d, dms[d]))

C29_PayloadFollowsFingerprint ==
    (call.fn = "points" /\ call.returned /\ call.result[1] = call.result[2])
        => call.result[3] = call.result[4]

\* C30: a delete of the cleanup at the end of a pass leaves the points of
\* every document enumerated in the pass as they are.
C30_CleanupSparesEnumerated ==
    [][(pass_pc = "orphans" /\ orphan_ids' # orphan_ids)
          => \A d \in Enumerated(cache) :
                PointsOf(store', Engine, d) = PointsOf(store, Engine, d)]_vars

C37_OneEmbeddingRequest ==
    \A s \in Slots :
        LET p == pipe[s]
        IN  /\ p.n_embed <= 1
            /\ (\/ p.pc \in {"embed", "delete", "upsert"}
                \/ p.stage \in {"embed", "delete", "build", "upsert", "synced"})
                   => p.n_embed = 1
            /\ (\/ p.pc \in {"fetch", "retract"}
                \/ p.stage \in {"fetch", "ineligible", "unchanged"})
                   => p.n_embed = 0
            /\ p.outcome = "synced"
                   => /\ p.sent = Range(BuildPoints(p.doc))
                      /\ Cardinality(p.sent) = Len(_split_text(p.doc.content))

\* A two-chunk document synced with one embedding request.
C37_Witness ==
    \E s \in Slots :
        /\ pipe[s].outcome = "synced"
        /\ Len(_split_text(pipe[s].doc.content)) = 2
        /\ pipe[s].n_embed = 1

\* C36: each upsert request of a pipeline carries the next slice of the
\* document's point list: it starts at the point after the last one sent,
\* holds between one and UPSERT_BATCH_SIZE points in chunk order and none
\* that was sent before; when the outcome is 'synced' the requests
\* together held the point of every chunk, each once.
C36_BatchesAreConsecutiveSlices ==
    /\ [](\A s \in Slots :
            pipe[s].outcome = "synced"
               => LET points == BuildPoints(pipe[s].doc)
                  IN  /\ pipe[s].sent = Range(points)
                      /\ Cardinality(pipe[s].sent) = Len(_split_text(pipe[s].doc.content))
                      /\ pipe[s].n_upsert
                            = (Len(points) + UPSERT_BATCH_SIZE - 1) \div UPSERT_BATCH_SIZE)
    /\ [][\A s \in Slots :
            pipe'[s].n_upsert = pipe[s].n_upsert + 1
               => LET points == BuildPoints(pipe'[s].doc)
                      from == pipe'[s].batch_start
                      batch == pipe'[s].sent \ pipe[s].sent
                  IN  /\ from = Cardinality(pipe[s].sent)
                      /\ from = pipe[s].n_upsert * UPSERT_BATCH_SIZE
                      /\ Cardinality(batch) \in 1..UPSERT_BATCH_SIZE
                      /\ Cardinality(pipe'[s].sent) = from + Cardinality(batch)
                      /\ batch = {points[i] : i \in from + 1 .. from + Cardinality(batch)}
                      /\ \A q \in batch : q.chunk_index \in from .. from + Cardinality(batch) - 1]_vars

\* A document of 101 chunks synced with two batches, of 100 points and of one.
C36_Witness ==
    \E s \in Slots :
        /\ pipe[s].outcome = "synced"
        /\ pipe[s].n_upsert = 2
        /\ Cardinality(pipe[s].sent) = UPSERT_BATCH_SIZE + 1

\* C32: when the scroll that pre-loads the fingerprints fails, the pass goes
\* on to the fan-out with the empty map; with the empty map no pipeline of
\* the pass ends as unchanged: every eligible document gets its embedding
\* request and ends synced or in error, and only ineligible documents are
\* skipped.
C32_FailedPreloadResyncsAll ==
    /\ [](rag_hashes = NoHashes
            => \A s \in FullSlots :
                  LET p == pipe[s]
                  IN  /\ p.stage # "unchanged"
                      /\ (p.pc \notin {"idle", "ready"} /\ _validate_document(p.doc))
                            => p.n_embed = 1 /\ p.outcome # "skipped"
                      /\ (p.outcome = "synced" /\ _validate_document(p.doc))
                            => p.sent = Range(BuildPoints(p.doc)))
    /\ [][(pass_pc = "load" /\ pass_pc' # "load")
            => /\ pass_pc' = "fanout"
               /\ ~pass_clean' => rag_hashes' = NoHashes
               /\ \A d \in Enumerated(cache) :
                     pipe'[d] = [IdlePipe EXCEPT !.pc = "ready", !.doc = DocOf(d, cache[d])]]_vars

\* The pre-load scroll failed (nothing but it can have failed while every
\* other pipeline is still waiting), the store holds a point with the
\* document's current fingerprint, and the document is being embedded all
\* the same.
C32_Witness ==
    /\ pass_pc = "fanout" /\ ~pass_clean /\ rag_hashes = NoHashes
    /\ \E s \in FullSlots :
          /\ pipe[s].pc = "embed" /\ pipe[s].n_embed = 1
          /\ \E q \in store : /\ q.dms_engine = Engine
                               /\ q.dms_doc_id # None
                               /\ str(q.dms_doc_id) = str(pipe[s].doc.id)
                               /\ q.content_hash = _compute_doc_hash(pipe[s].doc)
          /\ \A t \in FullSlots \ {s} : pipe[t].pc \in {"idle", "ready"}

\* C33: every do_sync pass that returns has run the orphan reconciliation,
\* once; the reconciliation starts from the fan-out only when every
\* pipeline of the pass has its outcome, the pass never goes back to it,
\* and while it scans and deletes no pipeline of the pass is in flight.
C33_ReconciliationOncePerPass ==
    /\ [](PassReturned => pass_pc \in {"done", "done_unscanned"})
    /\ [](pass_pc \in {"scan", "orphans", "done", "done_unscanned"}
            => \A d \in FullSlots : pipe[d].pc \in {"idle", "done"})
    /\ [][((pass_pc' = "scan" /\ pass_pc # "scan")
               => (pass_pc = "fanout"
                   /\ \A d \in Enumerated(cache) : pipe[d].pc = "done"))
           /\ (pass_pc \in {"orphans", "done", "done_unscanned", "returned_empty", "raised"}
               => pass_pc' \in {"orphans", "done", "done_unscanned", "returned_empty", "raised"})
           /\ (cleaned' # cleaned => pass_pc \in {"scan", "orphans"})]_vars

\* C35: in a pass every enumerated document ends with one outcome, kept in
\* the slot of that document and never changed afterwards; the counts are
\* taken once, when the fan-out is over, each document is counted under its
\* outcome and under no other, and synced + skipped + errors is the number
\* of enumerated documents in whatever order the pipelines ended.
C35_OneOutcomePerDocument ==
    /\ [](pass_pc \in {"scan", "orphans", "done", "done_unscanned"}
            => LET docs == Enumerated(cache)
                   of(o) == {d \in docs : pipe[d].outcome = o}
               IN  /\ docs = of("synced") \cup of("skipped") \cup of("error")
                   /\ \A d \in docs : pipe[d].doc.id = PyInt(d)
                   /\ tally.synced = Cardinality(of("synced"))
                   /\ tally.skipped = Cardinality(of("skipped"))
                   /\ tally.errors = Cardinality(of("error"))
                   /\ tally.synced + tally.skipped + tally.errors = Cardinality(docs))
    /\ [][(\A d \in FullSlots :
              pipe[d].outcome # "none" => pipe'[d].outcome = pipe[d].outcome)
           /\ (tally' # tally => (pass_pc = "fanout" /\ pass_pc' = "scan"))]_vars

\* A pass of two documents counted as one skipped and one error.
C35_Witness ==
    /\ pass_pc \in {"scan", "orphans", "done", "done_unscanned"}
    /\ Cardinality(Enumerated(cache)) = 2
    /\ \E a, b \in FullSlots :
          pipe[a].outcome = "skipped" /\ pipe[b].outcome = "error"
    /\ tally = [synced |-> 0, skipped |-> 1, errors |-> 1]

\* C34: when do_scroll_all returns from a backend that serves k pages, it
\* has sent k scroll requests, the first without offset and each further
\* one with the cursor of the page before, and its result is the points of
\* the pages in page order, each point once.
C34_ScrollAllFollowsCursors ==
    (call.fn = "do_scroll_all" /\ call.returned)
        => LET pages == call.args[1]
               requests == call.args[3]
               served == UNION {Range(pages[i].result) : i \in DOMAIN pages}
           IN  /\ Len(requests) = Len(pages)
               /\ requests[1] = None
               /\ \A i \in 2..Len(pages) : requests[i] = pages[i - 1].next_page_offset
               /\ Len(call.result) = Cardinality(served)
               /\ Range(call.result) = served
               /\ \A a, b \in DOMAIN call.result : a < b => call.result[a] < call.result[b]

\* Three pages served, two of them with points: three requests, the
\* points of both pages returned.
C34_Witness ==
    /\ call.fn = "do_scroll_all" /\ call.returned
    /\ Len(call.args[1]) = MaxPages
    /\ Len(call.args[3]) = MaxPages
    /\ Len(call.args[1][1].result) = MaxPageLen
    /\ Len(call.args[1][2].result) = 0
    /\ Len(call.args[1][MaxPages].result) = 1
    /\ Len(call.result) = MaxPageLen + 1

\* C38: in a call fill_cache(force_refresh=False) no cache that was
\* populated when the call began, be it by a call that failed later on and
\* be it with the empty dict, is fetched again or changed; when every cache
\* was populated the call sends no request and leaves all caches as they
\* were, so that only caches not yet populated are built.
C38_PopulatedCacheNotRefetched ==
    (call.fn = "fill_cache" /\ ~call.args[2])
        => LET caches == call.args[1]
               before == call.args[5]
           IN  /\ \A name \in CacheNames :
                     before[name] # None
                        => /\ caches[name] = before[name]
                           /\ \A i \in DOMAIN call.result : call.result[i] # name
               /\ (\A name \in CacheNames : before[name] # None)
                     => call.result = <<>> /\ caches = before
               /\ \A i \in DOMAIN call.result : before[call.result[i]] = None

\* A call that found every cache populated, one of them with the empty
\* dict, after an earlier call had failed partly: it returned without a
\* request.
C38_Witness ==
    /\ call.fn = "fill_cache" /\ ~call.args[2]
    /\ call.args[3] = "returned"
    /\ call.args[7]
    /\ \A name \in CacheNames : call.args[5][name] # None
    /\ call.args[5]["tags"] = Dict(0)
    /\ call.result = <<>>
====
